---- MODULE Spec2Model ----
(***************************************************************************)
(* ds::thread_safe_queue<T> (C++/ThreadSafeQueue/include/                  *)
(* thread_safe_queue.hpp): a std::queue guarded by one std::mutex and one  *)
(* std::condition_variable, with a one-way shutdown flag.  Client threads  *)
(* call push/emplace, try_pop, wait_and_pop, wait_for and shutdown in any  *)
(* interleaving.  Every member function is split at the points where       *)
(* another thread can observe it: taking the mutex, the critical section   *)
(* (which ends by releasing the mutex or by parking on the condition       *)
(* variable), and the notify that follows the critical section.            *)
(***************************************************************************)
EXTENDS Integers, Sequences, FiniteSets, Bags, TLC

\* Bound of the model: the number of pushes accepted in one run.
MaxPush == 3

\* The client threads: three, so that two consumers can be blocked while a
\* third thread pushes or shuts down.
Threads == {1, 2, 3}
NoThread == 0

VARIABLES
  queue_,     \* std::queue<T> queue_: sequence of items, head first
  shutdown_,  \* bool shutdown_
  mutex_,     \* std::mutex mutex_: the thread that holds it, or NoThread
  cv_,        \* std::condition_variable cv_: the threads blocked in cv_.wait
  pc,         \* per thread: where it is inside the member function it called
  ret,        \* per thread: <<function, result, cause>> of its last finished
              \* call; cause is "timeout" when wait_for gave up, "" otherwise
  accepted,   \* history: the items in the order their pushes were accepted
  removed,    \* history: [item, closed] in the order items left the queue,
              \* closed being shutdown_ at that moment
  \* ds::thread_pool (C++/ThreadPool/include/thread_pool.hpp), whose
  \* task_queue_ is the queue above:
  ctor,       \* the activation of thread_pool::thread_pool: arg, the
              \* argument it was called with; hardware, what
              \* std::thread::hardware_concurrency() returns; num_threads,
              \* its parameter, which it assigns to; at, its position
  workers_,        \* std::vector<std::thread> workers_: the worker threads
  pool_shutdown_,  \* std::atomic<bool> shutdown_ of the pool
  ppc,        \* per thread: where it is inside the pool function it runs
  task,       \* per thread: the task it holds (task in submit, the local
              \* task of worker_loop), or NoTask
  tasks,      \* the packaged tasks made so far, with the shared state of
              \* their futures; a task is named by its index
  barriers,   \* per thread: the local vector barriers of wait_all
  earlier,    \* history, per thread in wait_all: the tasks whose submit had
              \* returned when it called wait_all
  pret,       \* per thread: <<function, result>> of its last finished pool
              \* call
  \* CountDownLatch (C++/Latch/include/latch.hpp), one entry per latch:
  count_,          \* std::size_t count_
  latch_mutex_,    \* std::mutex mutex_: the thread that holds it, or NoThread
  latch_cv_,       \* std::condition_variable cv_: the threads blocked on it
  lpc,        \* per thread: [at, on, n], where it is inside which member
              \* function of which latch, and the argument of count_down(n)
  lret,       \* per thread: <<function, result>> of its last finished
              \* latch call
  \* The test of the latch (C++/Latch/tests/latch_test.cpp):
  test,       \* main: [num, i, at, joined], the number of workers, the loop
              \* variable, its position and the workers it has joined
  wk,         \* per worker thread: its position in the lambda
  \* DinerPhilosopher (C++/DinerPhilosopher/include/diner_philosopher.hpp):
  n_,            \* int n_
  forks_,        \* std::vector<std::timed_mutex> forks_: per fork, the
                 \* set of its owners (a mutex keeps it to one at most)
  philosophers_, \* std::vector<std::thread> philosophers_: the ids of the
                 \* threads it holds
  running_,      \* std::atomic<bool> running_
  phil,          \* per philosopher thread: its position in philosopher(id)
  table          \* the thread that uses the table: [at, i, joined], its
                 \* position in start or stop, the loop variable of start
                 \* and the threads stop has joined

\* The variables of the table of philosophers.
tablevars == <<n_, forks_, philosophers_, running_, phil, table>>

\* The variables of the latch and of its test, and of the table.
others == <<count_, latch_mutex_, latch_cv_, lpc, lret, test, wk, tablevars>>

\* The variables of the pool, and those a pop leaves alone.
poolrest == <<ctor, others, workers_, pool_shutdown_, ppc, tasks, barriers, earlier, pret>>
poolvars == <<poolrest, task>>

vars == <<queue_, shutdown_, mutex_, cv_, pc, ret, accepted, removed, poolvars>>

NoRet == <<"none", "none", "">>
NoTask == 0
NoPoolRet == <<"none", "none">>

\* An unsigned int of 32 bits is written as its two halves of 16 bits,
\* <<high, low>>, each in 0..Half-1.
Half == 65536
UInt(n) == <<n \div Half, n % Half>>

\* No pool is constructed: the queue is used alone.
NoCtor ==
  [at |-> "none", arg |-> UInt(0), hardware |-> UInt(0), num_threads |-> UInt(0)]

\* const int NUM_WORKERS = 4 of the latch test; its threads are the workers
\* 1..NUM_WORKERS and main.
NUM_WORKERS == 4
MainThread == NUM_WORKERS + 1
LatchThreads == 1..MainThread

\* CountDownLatch init_latch, start_latch.
Latches == {"init_latch", "start_latch"}

NoLatchRet == <<"none", "none">>
LatchIdle == [at |-> "idle", on |-> "init_latch", n |-> 0]

\* The mutexes and condition variables of latches just constructed, and
\* threads that are in no member function of a latch.
LatchesFresh ==
  /\ latch_mutex_ = [L \in Latches |-> NoThread]
  /\ latch_cv_ = [L \in Latches |-> {}]
  /\ lpc = [t \in LatchThreads |-> LatchIdle]
  /\ lret = [t \in LatchThreads |-> NoLatchRet]

\* No test of the latch is run.
NoTest ==
  /\ test = [num |-> 0, i |-> 0, at |-> "none", joined |-> {}]
  /\ wk = [w \in 1..NUM_WORKERS |-> "unborn"]

\* The philosophers are at most MaxPhilosophers, with ids from 0 as in the
\* code; fork f lies between philosopher f and the one before.
MaxPhilosophers == 4
Ids == 0..(MaxPhilosophers - 1)

\* The threads and the forks of a table that is not running: no thread
\* exists and every fork is free.
TableIdle == [at |-> "idle", i |-> 0, joined |-> {}]
TableFresh ==
  /\ forks_ = [f \in Ids |-> {}]
  /\ philosophers_ = {}
  /\ phil = [p \in Ids |-> "none"]
  /\ table = TableIdle

\* No table is constructed.
NoTable ==
  /\ n_ = 0
  /\ running_ = FALSE
  /\ TableFresh

\* No latch and no table is used.
NoLatch ==
  /\ count_ = [L \in Latches |-> 0]
  /\ LatchesFresh
  /\ NoTest
  /\ NoTable

\* The value a push inserts.  The queue never looks into a T, and the
\* producers of the tests push pairwise different values (val = i *
\* items_per_producer + j; 1, 2, 3): the k-th accepted push carries k.
\* thread_pool::submit pushes the closure [task]() { (*task)(); }, which is
\* named by the task it holds.
Item(t) == IF task[t] # NoTask THEN task[t] ELSE Len(accepted) + 1

----------------------------------------------------------------------------
\* Pure pieces of the member functions.

\* Mutant of WaitPred: the negation of !queue_.empty() is forgotten.
WaitPredNegated(q, s) == q = <<>> \/ s

\* The wait predicate [this] { return !queue_.empty() || shutdown_; }
WaitPred(q, s) == q # <<>> \/ s

\* Mutant of PushAccepted: the shutdown_ test is missing.
PushAlways(s) == TRUE

\* if (shutdown_) throw std::runtime_error(...): a push is accepted iff open.
PushAccepted(s) == ~s

\* Mutant of Enqueue: the item is inserted at the head.
EnqueueAtHead(q, x) == <<x>> \o q

\* queue_.push(value) / queue_.emplace(args...): insert at the tail.
Enqueue(q, x) == Append(q, x)

\* Mutant of Front: a pop hands out the item at the tail.
FrontIsBack(q) == q[Len(q)]

\* queue_.front(): the item a pop hands out.
Front(q) == Head(q)

\* Mutant of PopFront: queue_.pop() is forgotten.
PopNothing(q) == q

\* queue_.pop(): the queue without its head.
PopFront(q) == Tail(q)

\* queue_.size(): the number of queued items, a size_t.
Size(q) == Len(q)

\* Mutant of Empty: a queue holding one item is reported empty.
EmptyUpToOne(q) == Len(q) <= 1

\* queue_.empty()
Empty(q) == q = <<>>

\* Mutant of ShutdownFlag: the flag is toggled instead of set.
ShutdownToggle(s) == ~s

\* shutdown_ = true
ShutdownFlag(s) == TRUE

\* Mutant of NotifyOne: the notify after a push is missing.
NotifyNone(waiters) == {{}}

\* cv_.notify_one(): the sets of waiters one call may unblock.
NotifyOne(waiters) == IF waiters = {} THEN {{}} ELSE {{w} : w \in waiters}

\* Mutant of NotifyAll: shutdown calls notify_one.
NotifyAllAsOne(waiters) == NotifyOne(waiters)

\* cv_.notify_all(): unblocks every waiter.
NotifyAll(waiters) == {waiters}

\* Where a thread unblocked from cv_.wait continues: it must take the mutex
\* again before the wait returns and the predicate is evaluated again.
WakePc(p) == IF p = "wap_wait" THEN "wap_lock"
             ELSE IF p = "wf_wait" THEN "wf_lock"
             ELSE p

\* pc after thread t's notify has unblocked the threads in W.
AfterNotify(t, W) ==
  [x \in Threads |-> IF x = t THEN "idle"
                     ELSE IF x \in W THEN WakePc(pc[x])
                     ELSE pc[x]]

\* std::lock_guard / std::unique_lock constructor: mutex_.lock().
Lock(t) == mutex_ = NoThread /\ mutex_' = t

\* Leaving the scope of the lock: mutex_.unlock().
Unlock(t) == mutex_ = t /\ mutex_' = NoThread

InPush == {t \in Threads : pc[t] \in {"push_lock", "push_cs"}}

----------------------------------------------------------------------------
Init ==
  /\ queue_ = <<>>
  /\ shutdown_ = FALSE
  /\ mutex_ = NoThread
  /\ cv_ = {}
  /\ pc = [t \in Threads |-> "idle"]
  /\ ret = [t \in Threads |-> NoRet]
  /\ accepted = <<>>
  /\ removed = <<>>
  /\ ctor = NoCtor
  /\ workers_ = {}
  /\ pool_shutdown_ = FALSE
  /\ ppc = [t \in Threads |-> "client"]
  /\ task = [t \in Threads |-> NoTask]
  /\ tasks = <<>>
  /\ barriers = [t \in Threads |-> <<>>]
  /\ earlier = [t \in Threads |-> {}]
  /\ pret = [t \in Threads |-> NoPoolRet]
  /\ NoLatch

\* A client thread calls push(value) / emplace(args...).
CallPush(t) ==
  /\ pc[t] = "idle"
  /\ shutdown_ \/ Len(accepted) + Cardinality(InPush) < MaxPush
  /\ pc' = [pc EXCEPT ![t] = "push_lock"]
  /\ ret' = [ret EXCEPT ![t] = NoRet]
  /\ UNCHANGED <<queue_, shutdown_, mutex_, cv_, accepted, removed, poolvars>>

\* A client thread calls try_pop, wait_and_pop, wait_for or shutdown.
Call(t, f) ==
  /\ pc[t] = "idle"
  /\ pc' = [pc EXCEPT ![t] = f]
  /\ ret' = [ret EXCEPT ![t] = NoRet]
  /\ UNCHANGED <<queue_, shutdown_, mutex_, cv_, accepted, removed, poolvars>>

CallTryPop(t) == Call(t, "try_lock")
CallWaitAndPop(t) == Call(t, "wap_lock")
CallWaitFor(t) == Call(t, "wf_lock")
CallShutdown(t) == Call(t, "sd_lock")
CallIsShutdown(t) == Call(t, "is_lock")
CallSize(t) == Call(t, "size_lock")
CallEmpty(t) == Call(t, "empty_lock")

\* Taking the mutex: lock_guard/unique_lock construction, and the re-lock
\* inside cv_.wait / cv_.wait_for after the thread was unblocked.
Acquire(t, from, to) ==
  /\ pc[t] = from
  /\ Lock(t)
  /\ pc' = [pc EXCEPT ![t] = to]
  /\ UNCHANGED <<queue_, shutdown_, cv_, ret, accepted, removed, poolvars>>

PushLock(t) == Acquire(t, "push_lock", "push_cs")
TryPopLock(t) == Acquire(t, "try_lock", "try_cs")
WaitAndPopLock(t) == Acquire(t, "wap_lock", "wap_cs")
WaitForLock(t) == Acquire(t, "wf_lock", "wf_cs")
WaitForTimeoutLock(t) == Acquire(t, "wf_tlock", "wf_tcs")
ShutdownLock(t) == Acquire(t, "sd_lock", "sd_cs")
IsShutdownLock(t) == Acquire(t, "is_lock", "is_cs")
SizeLock(t) == Acquire(t, "size_lock", "size_cs")
EmptyLock(t) == Acquire(t, "empty_lock", "empty_cs")

\* Mutant of TakeHead: the item is returned with the mutex still locked.
TakeHeadHoldsLock(t, f) ==
  /\ queue_' = PopFront(queue_)
  /\ removed' = Append(removed, [item |-> Front(queue_), closed |-> shutdown_])
  /\ mutex_ = t
  /\ mutex_' = t
  /\ pc' = [pc EXCEPT ![t] = "idle"]
  /\ ret' = [ret EXCEPT ![t] = <<f, "item", "">>]
  /\ task' = IF t \in workers_ THEN [task EXCEPT ![t] = Front(queue_)] ELSE task
  /\ UNCHANGED <<shutdown_, cv_, accepted, poolrest>>

\* out = std::move(queue_.front()); queue_.pop(); return true;
\* (leaving the function releases the lock).  The out parameter is kept for
\* the workers of a pool, whose loop goes on to call it.
TakeHead(t, f) ==
  /\ queue_' = PopFront(queue_)
  /\ removed' = Append(removed, [item |-> Front(queue_), closed |-> shutdown_])
  /\ Unlock(t)
  /\ pc' = [pc EXCEPT ![t] = "idle"]
  /\ ret' = [ret EXCEPT ![t] = <<f, "item", "">>]
  /\ task' = IF t \in workers_ THEN [task EXCEPT ![t] = Front(queue_)] ELSE task
  /\ UNCHANGED <<shutdown_, cv_, accepted, poolrest>>

\* return false / return std::nullopt;
ReturnEmpty(t, f, cause) ==
  /\ Unlock(t)
  /\ pc' = [pc EXCEPT ![t] = "idle"]
  /\ ret' = [ret EXCEPT ![t] = <<f, "empty", cause>>]
  /\ UNCHANGED <<queue_, shutdown_, cv_, accepted, removed, poolvars>>

\* cv_.wait(lock): release the mutex and block on cv_, atomically.
Park(t, at) ==
  /\ Unlock(t)
  /\ cv_' = cv_ \cup {t}
  /\ pc' = [pc EXCEPT ![t] = at]
  /\ UNCHANGED <<queue_, shutdown_, ret, accepted, removed, poolvars>>

\* Mutant of PushBody: the queue has room for one item and a push that finds
\* it full waits on the condition variable for a consumer.
PushWaitsForSpace(t) ==
  /\ pc[t] = "push_cs"
  /\ IF ~PushAccepted(shutdown_)
       THEN /\ Unlock(t)
            /\ pc' = [pc EXCEPT ![t] = "idle"]
            /\ ret' = [ret EXCEPT ![t] = <<"push", "closed_error", "">>]
            /\ UNCHANGED <<queue_, shutdown_, cv_, accepted, removed, poolvars>>
       ELSE IF queue_ # <<>>
              THEN Park(t, "push_lock")
              ELSE /\ Unlock(t)
                   /\ queue_' = Enqueue(queue_, Item(t))
                   /\ accepted' = Append(accepted, Item(t))
                   /\ pc' = [pc EXCEPT ![t] = "push_notify"]
                   /\ UNCHANGED <<shutdown_, cv_, ret, removed, poolvars>>

\* push / emplace, under the lock: throw on a shut-down queue, else insert.
PushBody(t) ==
  /\ pc[t] = "push_cs"
  /\ Unlock(t)
  /\ IF PushAccepted(shutdown_)
       THEN /\ queue_' = Enqueue(queue_, Item(t))
            /\ accepted' = Append(accepted, Item(t))
            /\ pc' = [pc EXCEPT ![t] = "push_notify"]
            /\ UNCHANGED ret
       ELSE /\ pc' = [pc EXCEPT ![t] = "idle"]
            /\ ret' = [ret EXCEPT ![t] = <<"push", "closed_error", "">>]
            /\ UNCHANGED <<queue_, accepted>>
  /\ UNCHANGED <<shutdown_, cv_, removed, poolvars>>

\* Mutant of PushNotify: notify_one is called only by the push that finds
\* its item alone in the queue.
PushNotifyWhenAlone(t) ==
  /\ pc[t] = "push_notify"
  /\ \E W \in (IF Len(queue_) = 1 THEN NotifyOne(cv_) ELSE {{}}) :
       /\ cv_' = cv_ \ W
       /\ pc' = AfterNotify(t, W)
  /\ ret' = [ret EXCEPT ![t] = <<"push", "ok", "">>]
  /\ UNCHANGED <<queue_, shutdown_, mutex_, accepted, removed, poolvars>>

\* push / emplace, after the lock is released: cv_.notify_one().
PushNotify(t) ==
  /\ pc[t] = "push_notify"
  /\ \E W \in NotifyOne(cv_) :
       /\ cv_' = cv_ \ W
       /\ pc' = AfterNotify(t, W)
  /\ ret' = [ret EXCEPT ![t] = <<"push", "ok", "">>]
  /\ UNCHANGED <<queue_, shutdown_, mutex_, accepted, removed, poolvars>>

\* Mutant of TryPopBody: a shut-down queue is reported empty.
TryPopClosedIsEmpty(t) ==
  /\ pc[t] = "try_cs"
  /\ IF queue_ = <<>> \/ shutdown_
       THEN ReturnEmpty(t, "try_pop", "")
       ELSE TakeHead(t, "try_pop")

\* try_pop, under the lock.
TryPopBody(t) ==
  /\ pc[t] = "try_cs"
  /\ IF queue_ = <<>>
       THEN ReturnEmpty(t, "try_pop", "")
       ELSE TakeHead(t, "try_pop")

\* wait_and_pop, under the lock: one evaluation of the wait predicate and,
\* when it holds, the rest of the function.
WaitAndPopBody(t) ==
  /\ pc[t] = "wap_cs"
  /\ IF ~WaitPred(queue_, shutdown_)
       THEN Park(t, "wap_wait")
       ELSE IF queue_ = <<>>
              THEN ReturnEmpty(t, "wait_and_pop", "")
              ELSE TakeHead(t, "wait_and_pop")

\* wait_for, under the lock, before the timeout: as wait_and_pop (success is
\* then true).
WaitForBody(t) ==
  /\ pc[t] = "wf_cs"
  /\ IF ~WaitPred(queue_, shutdown_)
       THEN Park(t, "wf_wait")
       ELSE IF queue_ = <<>>
              THEN ReturnEmpty(t, "wait_for", "")
              ELSE TakeHead(t, "wait_for")

\* The timeout of cv_.wait_for elapses while the thread is blocked.
WaitForTimeout(t) ==
  /\ pc[t] = "wf_wait"
  /\ cv_' = cv_ \ {t}
  /\ pc' = [pc EXCEPT ![t] = "wf_tlock"]
  /\ UNCHANGED <<queue_, shutdown_, mutex_, ret, accepted, removed, poolvars>>

\* Mutant of WaitForTimeoutBody: a timeout is raised as an error.
WaitForTimeoutThrows(t) ==
  /\ pc[t] = "wf_tcs"
  /\ IF ~WaitPred(queue_, shutdown_)
       THEN /\ Unlock(t)
            /\ pc' = [pc EXCEPT ![t] = "idle"]
            /\ ret' = [ret EXCEPT ![t] = <<"wait_for", "timeout_error", "timeout">>]
            /\ UNCHANGED <<queue_, shutdown_, cv_, accepted, removed, poolvars>>
       ELSE IF queue_ = <<>>
              THEN ReturnEmpty(t, "wait_for", "")
              ELSE TakeHead(t, "wait_for")

\* Mutant of WaitForTimeoutBody: at the timeout wait_for gives up without
\* evaluating the predicate again.
WaitForTimeoutGivesUp(t) ==
  /\ pc[t] = "wf_tcs"
  /\ ReturnEmpty(t, "wait_for", "timeout")

\* wait_for, under the lock, after the timeout: success is the predicate's
\* value now; if (!success || queue_.empty()) return false.
WaitForTimeoutBody(t) ==
  /\ pc[t] = "wf_tcs"
  /\ IF ~WaitPred(queue_, shutdown_)
       THEN ReturnEmpty(t, "wait_for", "timeout")
       ELSE IF queue_ = <<>>
              THEN ReturnEmpty(t, "wait_for", "")
              ELSE TakeHead(t, "wait_for")

\* A thread blocked in cv_.wait / cv_.wait_for is unblocked spuriously.
SpuriousWake(t) ==
  /\ t \in cv_
  /\ cv_' = cv_ \ {t}
  /\ pc' = [pc EXCEPT ![t] = WakePc(pc[t])]
  /\ UNCHANGED <<queue_, shutdown_, mutex_, ret, accepted, removed, poolvars>>

\* Mutant of ShutdownBody: shutdown also discards the queued items.
ShutdownDiscards(t) ==
  /\ pc[t] = "sd_cs"
  /\ shutdown_' = ShutdownFlag(shutdown_)
  /\ queue_' = <<>>
  /\ Unlock(t)
  /\ pc' = [pc EXCEPT ![t] = "sd_notify"]
  /\ UNCHANGED <<cv_, ret, accepted, removed, poolvars>>

\* shutdown, under the lock: shutdown_ = true.
ShutdownBody(t) ==
  /\ pc[t] = "sd_cs"
  /\ shutdown_' = ShutdownFlag(shutdown_)
  /\ Unlock(t)
  /\ pc' = [pc EXCEPT ![t] = "sd_notify"]
  /\ UNCHANGED <<queue_, cv_, ret, accepted, removed, poolvars>>

\* shutdown, after the lock is released: cv_.notify_all().
ShutdownNotify(t) ==
  /\ pc[t] = "sd_notify"
  /\ \E W \in NotifyAll(cv_) :
       /\ cv_' = cv_ \ W
       /\ pc' = AfterNotify(t, W)
  /\ ret' = [ret EXCEPT ![t] = <<"shutdown", "ok", "">>]
  /\ UNCHANGED <<queue_, shutdown_, mutex_, accepted, removed, poolvars>>

\* is_shutdown, under the lock: return shutdown_.
IsShutdownBody(t) ==
  /\ pc[t] = "is_cs"
  /\ Unlock(t)
  /\ pc' = [pc EXCEPT ![t] = "idle"]
  /\ ret' = [ret EXCEPT ![t] =
               <<"is_shutdown", IF shutdown_ THEN "true" ELSE "false", "">>]
  /\ UNCHANGED <<queue_, shutdown_, cv_, accepted, removed, poolvars>>

Next ==
  \/ \E t \in Threads : CallPush(t)
  \/ \E t \in Threads : CallTryPop(t)
  \/ \E t \in Threads : CallWaitAndPop(t)
  \/ \E t \in Threads : CallWaitFor(t)
  \/ \E t \in Threads : CallShutdown(t)
  \/ \E t \in Threads : PushLock(t)
  \/ \E t \in Threads : PushBody(t)
  \/ \E t \in Threads : PushNotify(t)
  \/ \E t \in Threads : TryPopLock(t)
  \/ \E t \in Threads : TryPopBody(t)
  \/ \E t \in Threads : WaitAndPopLock(t)
  \/ \E t \in Threads : WaitAndPopBody(t)
  \/ \E t \in Threads : WaitForLock(t)
  \/ \E t \in Threads : WaitForBody(t)
  \/ \E t \in Threads : WaitForTimeout(t)
  \/ \E t \in Threads : WaitForTimeoutLock(t)
  \/ \E t \in Threads : WaitForTimeoutBody(t)
  \/ \E t \in Threads : SpuriousWake(t)
  \/ \E t \in Threads : ShutdownLock(t)
  \/ \E t \in Threads : ShutdownBody(t)
  \/ \E t \in Threads : ShutdownNotify(t)
  \/ \E t \in Threads : CallIsShutdown(t)
  \/ \E t \in Threads : IsShutdownLock(t)
  \/ \E t \in Threads : IsShutdownBody(t)

Spec == Init /\ [][Next]_vars

----------------------------------------------------------------------------
\* The capacity functions.

\* size, under the lock: return queue_.size().  The result is recorded as
\* the decimal numeral of the size_t.
SizeBody(t) ==
  /\ pc[t] = "size_cs"
  /\ Unlock(t)
  /\ pc' = [pc EXCEPT ![t] = "idle"]
  /\ ret' = [ret EXCEPT ![t] = <<"size", ToString(Size(queue_)), "">>]
  /\ UNCHANGED <<queue_, shutdown_, cv_, accepted, removed, poolvars>>

\* empty, under the lock: return queue_.empty().
EmptyBody(t) ==
  /\ pc[t] = "empty_cs"
  /\ Unlock(t)
  /\ pc' = [pc EXCEPT ![t] = "idle"]
  /\ ret' = [ret EXCEPT ![t] =
               <<"empty", IF Empty(queue_) THEN "true" ELSE "false", "">>]
  /\ UNCHANGED <<queue_, shutdown_, cv_, accepted, removed, poolvars>>

\* The queue used by threads that push, pop, shut down and ask for size()
\* and empty() in any interleaving.
SizeNext ==
  \/ \E t \in Threads : CallPush(t)
  \/ \E t \in Threads : CallTryPop(t)
  \/ \E t \in Threads : CallWaitAndPop(t)
  \/ \E t \in Threads : CallShutdown(t)
  \/ \E t \in Threads : CallSize(t)
  \/ \E t \in Threads : CallEmpty(t)
  \/ \E t \in Threads : PushLock(t)
  \/ \E t \in Threads : PushBody(t)
  \/ \E t \in Threads : PushNotify(t)
  \/ \E t \in Threads : TryPopLock(t)
  \/ \E t \in Threads : TryPopBody(t)
  \/ \E t \in Threads : WaitAndPopLock(t)
  \/ \E t \in Threads : WaitAndPopBody(t)
  \/ \E t \in Threads : SpuriousWake(t)
  \/ \E t \in Threads : ShutdownLock(t)
  \/ \E t \in Threads : ShutdownBody(t)
  \/ \E t \in Threads : ShutdownNotify(t)
  \/ \E t \in Threads : SizeLock(t)
  \/ \E t \in Threads : SizeBody(t)
  \/ \E t \in Threads : EmptyLock(t)
  \/ \E t \in Threads : EmptyBody(t)

SizeSpec == Init /\ [][SizeNext]_vars

----------------------------------------------------------------------------
\* The same queue used by threads that each make one call and then end, as
\* the consumer and main threads of the shutdown tests do.
FirstCall(t) == ret[t] = NoRet

OnceNext ==
  \/ \E t \in Threads : FirstCall(t) /\ CallPush(t)
  \/ \E t \in Threads : FirstCall(t) /\ CallTryPop(t)
  \/ \E t \in Threads : FirstCall(t) /\ CallWaitAndPop(t)
  \/ \E t \in Threads : FirstCall(t) /\ CallWaitFor(t)
  \/ \E t \in Threads : FirstCall(t) /\ CallShutdown(t)
  \/ \E t \in Threads : FirstCall(t) /\ CallIsShutdown(t)
  \/ \E t \in Threads : PushLock(t)
  \/ \E t \in Threads : PushBody(t)
  \/ \E t \in Threads : PushNotify(t)
  \/ \E t \in Threads : TryPopLock(t)
  \/ \E t \in Threads : TryPopBody(t)
  \/ \E t \in Threads : WaitAndPopLock(t)
  \/ \E t \in Threads : WaitAndPopBody(t)
  \/ \E t \in Threads : WaitForLock(t)
  \/ \E t \in Threads : WaitForBody(t)
  \/ \E t \in Threads : WaitForTimeout(t)
  \/ \E t \in Threads : WaitForTimeoutLock(t)
  \/ \E t \in Threads : WaitForTimeoutBody(t)
  \/ \E t \in Threads : SpuriousWake(t)
  \/ \E t \in Threads : ShutdownLock(t)
  \/ \E t \in Threads : ShutdownBody(t)
  \/ \E t \in Threads : ShutdownNotify(t)
  \/ \E t \in Threads : IsShutdownLock(t)
  \/ \E t \in Threads : IsShutdownBody(t)

OnceSpec == Init /\ [][OnceNext]_vars

\* Scheduling: a thread that can run its next statement eventually runs it,
\* and a thread that asks for the mutex again and again eventually gets it.
\* Nothing obliges a client to make a call, a timeout to elapse or a
\* spurious wake-up to happen.
AcquireStep(t) ==
  \/ PushLock(t) \/ TryPopLock(t) \/ WaitAndPopLock(t) \/ WaitForLock(t)
  \/ WaitForTimeoutLock(t) \/ ShutdownLock(t) \/ IsShutdownLock(t)

RunStep(t) ==
  \/ PushBody(t) \/ PushNotify(t) \/ TryPopBody(t) \/ WaitAndPopBody(t)
  \/ WaitForBody(t) \/ WaitForTimeoutBody(t) \/ ShutdownBody(t)
  \/ ShutdownNotify(t) \/ IsShutdownBody(t)

Fairness ==
  \A t \in Threads : WF_vars(RunStep(t)) /\ SF_vars(AcquireStep(t))

FairSpec == OnceSpec /\ Fairness

\* Producers, consumers blocked in wait_and_pop and shutdown, any number of
\* calls per thread (as the producers and consumers of the stress test, and
\* the shutdown that ends it), under the same scheduling.
WakeNext ==
  \/ \E t \in Threads : CallPush(t)
  \/ \E t \in Threads : CallWaitAndPop(t)
  \/ \E t \in Threads : CallShutdown(t)
  \/ \E t \in Threads : PushLock(t)
  \/ \E t \in Threads : PushBody(t)
  \/ \E t \in Threads : PushNotify(t)
  \/ \E t \in Threads : WaitAndPopLock(t)
  \/ \E t \in Threads : WaitAndPopBody(t)
  \/ \E t \in Threads : SpuriousWake(t)
  \/ \E t \in Threads : ShutdownLock(t)
  \/ \E t \in Threads : ShutdownBody(t)
  \/ \E t \in Threads : ShutdownNotify(t)

FairWakeSpec == Init /\ [][WakeNext]_vars /\ Fairness

----------------------------------------------------------------------------
\* ds::thread_pool: workers_ run worker_loop on task_queue_; the other
\* threads are its clients and call submit, wait_all, shutdown and
\* is_shutdown.  The member functions of task_queue_ they call are the queue
\* actions above.

\* At least one thread stays a client of the pool.
MaxWorkers == Cardinality(Threads) - 1

\* The arguments a client binds to its callable: the last thread, which is
\* a client of every pool, binds 21 and 21, the others 1 and 2.
Args(t) == IF t = Cardinality(Threads) THEN <<21, 21>> ELSE <<1, 2>>

\* The callable of the clients, applied to its bound arguments: a sum, as in
\* submit([] { return 21 + 21; }).
Invoke(args) == args[1] + args[2]

\* The first call of shutdown() has returned: the flag is set and no thread
\* is inside shutdown() any more.
ShutdownReturned == pool_shutdown_ /\ \A t \in Threads : ppc[t] # "sd_join"

\* std::make_shared<std::packaged_task<return_type()>>(...) and get_future():
\* a task that has not run, its future pending.  kind is "job" for a client's
\* callable, "throws" for a client's callable that throws, and "barrier" for
\* the no-op [] {} of wait_all.  The shared state is pending, or ready with
\* a value (result) or with an exception (error).  History: flag and stopped
\* tell whether the pool's flag was set, and whether its shutdown() had
\* returned, when the submit that made the task was called.
NewTask(kind, args) ==
  [kind |-> kind, args |-> args, state |-> "pending", result |-> <<>>,
   error |-> FALSE, runs |-> 0, flag |-> pool_shutdown_,
   stopped |-> ShutdownReturned]

\* Mutant of Fulfil: the stored result is the first argument.
FulfilFirstArg(tk) ==
  [tk EXCEPT !.state = "ready",
             !.result = IF tk.kind = "job" THEN <<tk.args[1]>> ELSE <<>>,
             !.runs = @ + 1]

\* Mutant of Fulfil: the exception of a callable is dropped and the shared
\* state stays pending.
FulfilUnlessThrows(tk) ==
  IF tk.kind = "throws"
    THEN [tk EXCEPT !.runs = @ + 1]
    ELSE [tk EXCEPT !.state = "ready",
                    !.result = IF tk.kind = "job" THEN <<Invoke(tk.args)>> ELSE <<>>,
                    !.runs = @ + 1]

\* (*task)(): the packaged task calls func(args...) and makes the shared
\* state ready with the value returned (nothing for a void callable), or
\* with the exception the callable threw, which std::packaged_task catches.
\* Mutant of Fulfil: the callable is run and its outcome is not stored.
FulfilLosesOutcome(tk) ==
  [tk EXCEPT !.runs = @ + 1]

Fulfil(tk) ==
  [tk EXCEPT !.state = "ready",
             !.result = IF tk.kind = "job" THEN <<Invoke(tk.args)>> ELSE <<>>,
             !.error = (tk.kind = "throws"),
             !.runs = @ + 1]

Clients == Threads \ workers_

\* The tasks whose submit() has returned a future.
Returned ==
  {k \in 1..Len(tasks) :
     /\ \E i \in 1..Len(accepted) : accepted[i] = k
     /\ \A t \in Threads : task[t] = k => t \in workers_}

\* The barriers a wait_all in progress has still to make.
Owed(t) ==
  IF ppc[t] = "wa_push" THEN Cardinality(workers_) - Len(barriers[t]) - 1 ELSE 0

RECURSIVE SumOwed(_)
SumOwed(S) ==
  IF S = {} THEN 0
  ELSE LET t == CHOOSE x \in S : TRUE IN Owed(t) + SumOwed(S \ {t})

\* The workers inside wait_all, called by the body of the task they run.
InWaitAll == {w \in workers_ : ppc[w] \in {"wa_push", "wa_wait"}}

\* The barriers owed by a task whose body calls wait_all and has not
\* started.
Reserved ==
  IF \E k \in 1..Len(tasks) :
       tasks[k].kind = "waits" /\ tasks[k].state = "pending" /\ InWaitAll = {}
    THEN Cardinality(workers_)
    ELSE 0

\* The bound leaves room for k more tasks.
Room(k) == Len(tasks) + SumOwed(Threads) + Reserved + k <= MaxPush

MaxHardware == 12
MaxArg == 3

\* What the hardware query may return: small counts, 0 when the count is
\* not computable, and the largest unsigned int.
Hardware == {UInt(h) : h \in 0..MaxHardware} \cup {<<Half - 1, Half - 1>>}

\* std::thread::hardware_concurrency() - 1: unsigned int minus int, computed
\* in unsigned int (modulo 2^32, with the borrow from the high half), then
\* widened to the size_t num_threads.
HardwareMinusOne(h) ==
  IF h[2] > 0
    THEN <<h[1], h[2] - 1>>
    ELSE <<(h[1] + Half - 1) % Half, Half - 1>>

\* thread_pool(arg) is called on a machine whose hardware query returns
\* hardware; task_queue_ is constructed, no worker is started yet.
CtorInit ==
  /\ queue_ = <<>>
  /\ shutdown_ = FALSE
  /\ mutex_ = NoThread
  /\ cv_ = {}
  /\ pc = [t \in Threads |-> "idle"]
  /\ ret = [t \in Threads |-> NoRet]
  /\ accepted = <<>>
  /\ removed = <<>>
  /\ \E a \in 0..MaxArg, h \in Hardware :
       ctor = [at |-> "entry", arg |-> UInt(a), hardware |-> h,
               num_threads |-> UInt(a)]
  /\ workers_ = {}
  /\ pool_shutdown_ = FALSE
  /\ ppc = [t \in Threads |-> "client"]
  /\ task = [t \in Threads |-> NoTask]
  /\ tasks = <<>>
  /\ barriers = [t \in Threads |-> <<>>]
  /\ earlier = [t \in Threads |-> {}]
  /\ pret = [t \in Threads |-> NoPoolRet]
  /\ NoLatch

\* What the constructor leaves alone before it starts the workers.
ctorrest == <<queue_, shutdown_, mutex_, cv_, pc, ret, accepted, removed,
              others, workers_, pool_shutdown_, ppc, task, tasks, barriers, earlier,
              pret>>

\* if (num_threads == 0) is false: on to workers_.reserve.
CtorExplicit ==
  /\ ctor.at = "entry"
  /\ ctor.num_threads # UInt(0)
  /\ ctor' = [ctor EXCEPT !.at = "reserve"]
  /\ UNCHANGED ctorrest

\* if (num_threads == 0) is true:
\* num_threads = std::thread::hardware_concurrency() - 1.
CtorQuery ==
  /\ ctor.at = "entry"
  /\ ctor.num_threads = UInt(0)
  /\ ctor' = [ctor EXCEPT !.at = "queried",
                          !.num_threads = HardwareMinusOne(ctor.hardware)]
  /\ UNCHANGED ctorrest

\* if (num_threads == 0) num_threads = 1, after the query.
CtorFallback ==
  /\ ctor.at = "queried"
  /\ ctor' = [ctor EXCEPT !.at = "reserve",
                          !.num_threads = IF @ = UInt(0) THEN UInt(1) ELSE @]
  /\ UNCHANGED ctorrest

\* workers_.reserve(num_threads) and the loop of emplace_back, for a count
\* the threads of the model suffice for: the workers are started and each
\* is about to call wait_and_pop.
CtorSpawn ==
  /\ ctor.at = "reserve"
  /\ ctor.num_threads[1] = 0
  /\ ctor.num_threads[2] <= MaxWorkers
  /\ ctor' = [ctor EXCEPT !.at = "done"]
  /\ workers_' = 1..ctor.num_threads[2]
  /\ pc' = [t \in Threads |->
              IF t <= ctor.num_threads[2] THEN "wap_lock" ELSE "idle"]
  /\ ppc' = [t \in Threads |->
               IF t <= ctor.num_threads[2] THEN "worker" ELSE "client"]
  /\ UNCHANGED <<queue_, shutdown_, mutex_, cv_, ret, accepted, removed, others,
                 pool_shutdown_, task, tasks, barriers, earlier, pret>>

CtorNext ==
  \/ CtorExplicit
  \/ CtorQuery
  \/ CtorFallback
  \/ CtorSpawn

CtorSpec == CtorInit /\ [][CtorNext]_vars

\* thread_pool(num_threads) with num_threads >= 1, constructed: the workers
\* are started and each is about to call wait_and_pop.
PoolInit ==
  /\ queue_ = <<>>
  /\ shutdown_ = FALSE
  /\ mutex_ = NoThread
  /\ cv_ = {}
  /\ ret = [t \in Threads |-> NoRet]
  /\ accepted = <<>>
  /\ removed = <<>>
  /\ \E num_threads \in 1..MaxWorkers :
       /\ ctor = [at |-> "done", arg |-> UInt(num_threads),
                  hardware |-> UInt(0), num_threads |-> UInt(num_threads)]
       /\ workers_ = 1..num_threads
       /\ pc = [t \in Threads |-> IF t <= num_threads THEN "wap_lock" ELSE "idle"]
       /\ ppc = [t \in Threads |-> IF t <= num_threads THEN "worker" ELSE "client"]
  /\ pool_shutdown_ = FALSE
  /\ task = [t \in Threads |-> NoTask]
  /\ tasks = <<>>
  /\ barriers = [t \in Threads |-> <<>>]
  /\ earlier = [t \in Threads |-> {}]
  /\ pret = [t \in Threads |-> NoPoolRet]
  /\ NoLatch

\* Thread t makes a task of the given kind and calls task_queue_.push with
\* the closure that holds it; at is its position in the pool function.
MakeAndPush(t, kind, args, at) ==
  /\ tasks' = Append(tasks, NewTask(kind, args))
  /\ task' = [task EXCEPT ![t] = Len(tasks) + 1]
  /\ pc' = [pc EXCEPT ![t] = "push_lock"]
  /\ ret' = [ret EXCEPT ![t] = NoRet]
  /\ ppc' = [ppc EXCEPT ![t] = at]
  /\ pret' = [pret EXCEPT ![t] = NoPoolRet]

\* A client at rest, between two calls.
AtRest(t) == t \in Clients /\ ppc[t] = "client" /\ pc[t] = "idle"

\* submit(f, args...) up to the call of task_queue_.push.
PoolSubmit(t) ==
  /\ AtRest(t)
  /\ Room(1)
  /\ MakeAndPush(t, "job", Args(t), "submit")
  /\ UNCHANGED <<queue_, shutdown_, mutex_, cv_, accepted, removed,
                 ctor, others, workers_, pool_shutdown_, barriers, earlier>>

\* submit(f) with a callable that throws, up to the call of
\* task_queue_.push.
PoolSubmitThrowing(t) ==
  /\ AtRest(t)
  /\ Room(1)
  /\ MakeAndPush(t, "throws", <<>>, "submit")
  /\ UNCHANGED <<queue_, shutdown_, mutex_, cv_, accepted, removed,
                 ctor, others, workers_, pool_shutdown_, barriers, earlier>>

\* submit after push: return result, or the exception of push goes on to
\* the caller.
SubmitReturn(t) ==
  /\ ppc[t] = "submit"
  /\ pc[t] = "idle"
  /\ ret[t][1] = "push"
  /\ ppc' = [ppc EXCEPT ![t] = "client"]
  /\ task' = [task EXCEPT ![t] = NoTask]
  /\ pret' = [pret EXCEPT ![t] =
                <<"submit", IF ret[t][2] = "ok" THEN "future" ELSE "closed_error">>]
  /\ UNCHANGED <<queue_, shutdown_, mutex_, cv_, pc, ret, accepted, removed,
                 ctor, others, workers_, pool_shutdown_, tasks, barriers, earlier>>

\* wait_all up to the push of its first barrier.
PoolWaitAll(t) ==
  /\ AtRest(t)
  /\ Room(Cardinality(workers_))
  /\ MakeAndPush(t, "barrier", <<>>, "wa_push")
  /\ barriers' = [barriers EXCEPT ![t] = <<>>]
  /\ earlier' = [earlier EXCEPT ![t] = Returned]
  /\ UNCHANGED <<queue_, shutdown_, mutex_, cv_, accepted, removed,
                 ctor, others, workers_, pool_shutdown_>>

\* Mutant of WaitAllPushed: the exception of push is swallowed, wait_all
\* goes on with the future of the refused barrier.
WaitAllPushedSwallows(t) ==
  /\ t \in Clients
  /\ ppc[t] = "wa_push"
  /\ pc[t] = "idle"
  /\ ret[t][1] = "push"
  /\ IF Len(barriers[t]) + 1 < Cardinality(workers_)
       THEN /\ barriers' = [barriers EXCEPT ![t] = Append(@, task[t])]
            /\ MakeAndPush(t, "barrier", <<>>, "wa_push")
            /\ UNCHANGED earlier
       ELSE /\ barriers' = [barriers EXCEPT ![t] = Append(@, task[t])]
            /\ ppc' = [ppc EXCEPT ![t] = "wa_wait"]
            /\ task' = [task EXCEPT ![t] = NoTask]
            /\ UNCHANGED <<pc, ret, tasks, pret, earlier>>
  /\ UNCHANGED <<queue_, shutdown_, mutex_, cv_, accepted, removed,
                 ctor, others, workers_, pool_shutdown_>>

\* wait_all after a push: barriers.push_back(the future) and the next turn
\* of the loop, or the exception of push ends wait_all.
WaitAllPushed(t) ==
  /\ t \in Clients
  /\ ppc[t] = "wa_push"
  /\ pc[t] = "idle"
  /\ ret[t][1] = "push"
  /\ IF ret[t][2] # "ok"
       THEN /\ ppc' = [ppc EXCEPT ![t] = "client"]
            /\ pret' = [pret EXCEPT ![t] = <<"wait_all", "closed_error">>]
            /\ task' = [task EXCEPT ![t] = NoTask]
            /\ barriers' = [barriers EXCEPT ![t] = <<>>]
            /\ earlier' = [earlier EXCEPT ![t] = {}]
            /\ UNCHANGED <<pc, ret, tasks>>
       ELSE IF Len(barriers[t]) + 1 < Cardinality(workers_)
              THEN /\ barriers' = [barriers EXCEPT ![t] = Append(@, task[t])]
                   /\ MakeAndPush(t, "barrier", <<>>, "wa_push")
                   /\ UNCHANGED earlier
              ELSE /\ barriers' = [barriers EXCEPT ![t] = Append(@, task[t])]
                   /\ ppc' = [ppc EXCEPT ![t] = "wa_wait"]
                   /\ task' = [task EXCEPT ![t] = NoTask]
                   /\ UNCHANGED <<pc, ret, tasks, pret, earlier>>
  /\ UNCHANGED <<queue_, shutdown_, mutex_, cv_, accepted, removed,
                 ctor, others, workers_, pool_shutdown_>>

\* Mutant of WaitAllReturn: wait_all returns without waiting for its
\* barriers.
WaitAllReturnNoWait(t) ==
  /\ ppc[t] = "wa_wait"
  /\ ppc' = [ppc EXCEPT ![t] = "client"]
  /\ pret' = [pret EXCEPT ![t] = <<"wait_all", "ok">>]
  /\ barriers' = [barriers EXCEPT ![t] = <<>>]
  /\ earlier' = [earlier EXCEPT ![t] = {}]
  /\ UNCHANGED <<queue_, shutdown_, mutex_, cv_, pc, ret, accepted, removed,
                 ctor, others, workers_, pool_shutdown_, task, tasks>>

\* wait_all: barrier.wait() has returned for every barrier.
WaitAllReturn(t) ==
  /\ t \in Clients
  /\ ppc[t] = "wa_wait"
  /\ \A i \in 1..Len(barriers[t]) : tasks[barriers[t][i]].state = "ready"
  /\ ppc' = [ppc EXCEPT ![t] = "client"]
  /\ pret' = [pret EXCEPT ![t] = <<"wait_all", "ok">>]
  /\ barriers' = [barriers EXCEPT ![t] = <<>>]
  /\ earlier' = [earlier EXCEPT ![t] = {}]
  /\ UNCHANGED <<queue_, shutdown_, mutex_, cv_, pc, ret, accepted, removed,
                 ctor, others, workers_, pool_shutdown_, task, tasks>>

\* Mutant of PoolShutdown: shutdown sets the flag and returns, the task
\* queue is not shut down.
PoolShutdownFlagOnly(t) ==
  /\ AtRest(t)
  /\ pool_shutdown_' = TRUE
  /\ pret' = [pret EXCEPT ![t] =
                <<"shutdown", IF pool_shutdown_ THEN "already" ELSE "joined">>]
  /\ UNCHANGED <<queue_, shutdown_, mutex_, cv_, pc, ret, accepted, removed,
                 ctor, others, workers_, ppc, task, tasks, barriers, earlier>>

\* Mutant of PoolShutdown: the value of exchange is not looked at, every
\* caller goes on to task_queue_.shutdown() and the joins.
PoolShutdownUnguarded(t) ==
  /\ AtRest(t)
  /\ pool_shutdown_' = TRUE
  /\ pc' = [pc EXCEPT ![t] = "sd_lock"]
  /\ ret' = [ret EXCEPT ![t] = NoRet]
  /\ ppc' = [ppc EXCEPT ![t] = "sd_join"]
  /\ pret' = [pret EXCEPT ![t] = NoPoolRet]
  /\ UNCHANGED <<queue_, shutdown_, mutex_, cv_, accepted, removed,
                 ctor, others, workers_, task, tasks, barriers, earlier>>

\* shutdown (and the destructor, which calls it): shutdown_.exchange(true);
\* the caller that finds the flag set returns, the first caller goes on to
\* task_queue_.shutdown().
PoolShutdown(t) ==
  /\ AtRest(t)
  /\ pool_shutdown_' = TRUE
  /\ IF pool_shutdown_
       THEN /\ pret' = [pret EXCEPT ![t] = <<"shutdown", "already">>]
            /\ UNCHANGED <<pc, ret, ppc>>
       ELSE /\ pc' = [pc EXCEPT ![t] = "sd_lock"]
            /\ ret' = [ret EXCEPT ![t] = NoRet]
            /\ ppc' = [ppc EXCEPT ![t] = "sd_join"]
            /\ pret' = [pret EXCEPT ![t] = NoPoolRet]
  /\ UNCHANGED <<queue_, shutdown_, mutex_, cv_, accepted, removed,
                 ctor, others, workers_, task, tasks, barriers, earlier>>

\* Mutant of PoolShutdownJoined: shutdown does not join the workers.
PoolShutdownNoJoin(t) ==
  /\ ppc[t] = "sd_join"
  /\ pc[t] = "idle"
  /\ ret[t][1] = "shutdown"
  /\ ppc' = [ppc EXCEPT ![t] = "client"]
  /\ pret' = [pret EXCEPT ![t] = <<"shutdown", "joined">>]
  /\ UNCHANGED <<queue_, shutdown_, mutex_, cv_, pc, ret, accepted, removed,
                 ctor, others, workers_, pool_shutdown_, task, tasks, barriers, earlier>>

\* Mutant of PoolShutdownJoined: the flag is cleared after the joins.
PoolShutdownReopens(t) ==
  /\ ppc[t] = "sd_join"
  /\ pc[t] = "idle"
  /\ ret[t][1] = "shutdown"
  /\ \A w \in workers_ : ppc[w] = "exited"
  /\ pool_shutdown_' = FALSE
  /\ ppc' = [ppc EXCEPT ![t] = "client"]
  /\ pret' = [pret EXCEPT ![t] = <<"shutdown", "joined">>]
  /\ UNCHANGED <<queue_, shutdown_, mutex_, cv_, pc, ret, accepted, removed,
                 ctor, others, workers_, task, tasks, barriers, earlier>>

\* Mutant of PoolShutdownJoined: the joined threads are removed from
\* workers_.
PoolShutdownClears(t) ==
  /\ ppc[t] = "sd_join"
  /\ pc[t] = "idle"
  /\ ret[t][1] = "shutdown"
  /\ \A w \in workers_ : ppc[w] = "exited"
  /\ workers_' = {}
  /\ ppc' = [ppc EXCEPT ![t] = "client"]
  /\ pret' = [pret EXCEPT ![t] = <<"shutdown", "joined">>]
  /\ UNCHANGED <<queue_, shutdown_, mutex_, cv_, pc, ret, accepted, removed,
                 ctor, others, pool_shutdown_, task, tasks, barriers, earlier>>

\* shutdown after task_queue_.shutdown(): worker.join() has returned for
\* every worker.
PoolShutdownJoined(t) ==
  /\ ppc[t] = "sd_join"
  /\ pc[t] = "idle"
  /\ ret[t][1] = "shutdown"
  /\ \A w \in workers_ : ppc[w] = "exited"
  /\ ppc' = [ppc EXCEPT ![t] = "client"]
  /\ pret' = [pret EXCEPT ![t] = <<"shutdown", "joined">>]
  /\ UNCHANGED <<queue_, shutdown_, mutex_, cv_, pc, ret, accepted, removed,
                 ctor, others, workers_, pool_shutdown_, task, tasks, barriers, earlier>>

\* thread_count: return workers_.size().
thread_count == Cardinality(workers_)

\* is_shutdown: return shutdown_.load().
PoolIsShutdown(t) ==
  /\ AtRest(t)
  /\ pret' = [pret EXCEPT ![t] =
                <<"is_shutdown", IF pool_shutdown_ THEN "true" ELSE "false">>]
  /\ UNCHANGED <<queue_, shutdown_, mutex_, cv_, pc, ret, accepted, removed,
                 ctor, others, workers_, pool_shutdown_, ppc, task, tasks, barriers, earlier>>

\* Mutant of WorkerRun: the worker leaves its loop after its first task.
WorkerRunThenBreak(w) ==
  /\ w \in workers_
  /\ ppc[w] = "worker"
  /\ pc[w] = "idle"
  /\ ret[w] = <<"wait_and_pop", "item", "">>
  /\ tasks' = [tasks EXCEPT ![task[w]] = Fulfil(@)]
  /\ task' = [task EXCEPT ![w] = NoTask]
  /\ ppc' = [ppc EXCEPT ![w] = "exited"]
  /\ UNCHANGED <<queue_, shutdown_, mutex_, cv_, pc, ret, accepted, removed,
                 ctor, others, workers_, pool_shutdown_, barriers, earlier, pret>>

\* Mutant of WorkerRun: the exception of a task escapes and ends the worker.
WorkerRunDiesOnThrow(w) ==
  /\ w \in workers_
  /\ ppc[w] = "worker"
  /\ pc[w] = "idle"
  /\ ret[w] = <<"wait_and_pop", "item", "">>
  /\ tasks' = [tasks EXCEPT ![task[w]] = Fulfil(@)]
  /\ task' = [task EXCEPT ![w] = NoTask]
  /\ IF tasks[task[w]].kind = "throws"
       THEN /\ ppc' = [ppc EXCEPT ![w] = "exited"]
            /\ UNCHANGED <<pc, ret>>
       ELSE /\ pc' = [pc EXCEPT ![w] = "wap_lock"]
            /\ ret' = [ret EXCEPT ![w] = NoRet]
            /\ UNCHANGED ppc
  /\ UNCHANGED <<queue_, shutdown_, mutex_, cv_, accepted, removed,
                 ctor, others, workers_, pool_shutdown_, barriers, earlier, pret>>

\* worker_loop after wait_and_pop returned true: task(), run to its end,
\* and the next turn of the loop up to the call of wait_and_pop.
WorkerRun(w) ==
  /\ w \in workers_
  /\ ppc[w] = "worker"
  /\ pc[w] = "idle"
  /\ ret[w] = <<"wait_and_pop", "item", "">>
  /\ tasks[task[w]].kind # "waits"
  /\ tasks' = [tasks EXCEPT ![task[w]] = Fulfil(@)]
  /\ task' = [task EXCEPT ![w] = NoTask]
  /\ pc' = [pc EXCEPT ![w] = "wap_lock"]
  /\ ret' = [ret EXCEPT ![w] = NoRet]
  /\ UNCHANGED <<queue_, shutdown_, mutex_, cv_, accepted, removed,
                 ctor, others, workers_, pool_shutdown_, ppc, barriers, earlier, pret>>

\* worker_loop after wait_and_pop returned false: break; the thread ends.
WorkerExit(w) ==
  /\ w \in workers_
  /\ ppc[w] = "worker"
  /\ pc[w] = "idle"
  /\ ret[w] = <<"wait_and_pop", "empty", "">>
  /\ ppc' = [ppc EXCEPT ![w] = "exited"]
  /\ UNCHANGED <<queue_, shutdown_, mutex_, cv_, pc, ret, accepted, removed,
                 ctor, others, workers_, pool_shutdown_, task, tasks, barriers, earlier, pret>>

PoolNext ==
  \/ \E t \in Threads : PoolSubmit(t)
  \/ \E t \in Threads : SubmitReturn(t)
  \/ \E t \in Threads : PoolWaitAll(t)
  \/ \E t \in Threads : WaitAllPushed(t)
  \/ \E t \in Threads : WaitAllReturn(t)
  \/ \E t \in Threads : PoolShutdown(t)
  \/ \E t \in Threads : PoolShutdownJoined(t)
  \/ \E t \in Threads : PoolIsShutdown(t)
  \/ \E t \in Threads : WorkerRun(t)
  \/ \E t \in Threads : WorkerExit(t)
  \/ \E t \in Threads : PushLock(t)
  \/ \E t \in Threads : PushBody(t)
  \/ \E t \in Threads : PushNotify(t)
  \/ \E t \in Threads : WaitAndPopLock(t)
  \/ \E t \in Threads : WaitAndPopBody(t)
  \/ \E t \in Threads : SpuriousWake(t)
  \/ \E t \in Threads : ShutdownLock(t)
  \/ \E t \in Threads : ShutdownBody(t)
  \/ \E t \in Threads : ShutdownNotify(t)

PoolSpec == PoolInit /\ [][PoolNext]_vars

\* Scheduling of the pool's threads: as for the queue, and a thread that can
\* run its next statement of a pool function, or the task it has dequeued,
\* eventually does; every task body terminates.  Nothing obliges a client
\* to make a call.
PoolStep(t) ==
  \/ SubmitReturn(t) \/ WaitAllPushed(t) \/ WaitAllReturn(t)
  \/ PoolShutdownJoined(t) \/ WorkerRun(t) \/ WorkerExit(t)

PoolFairness ==
  \A t \in Threads :
    WF_vars(RunStep(t)) /\ SF_vars(AcquireStep(t)) /\ WF_vars(PoolStep(t))

\* The pool used by clients that submit jobs and shut it down (or destroy
\* it), under that scheduling.
DrainNext ==
  \/ \E t \in Threads : PoolSubmit(t)
  \/ \E t \in Threads : SubmitReturn(t)
  \/ \E t \in Threads : PoolShutdown(t)
  \/ \E t \in Threads : PoolShutdownJoined(t)
  \/ \E t \in Threads : WorkerRun(t)
  \/ \E t \in Threads : WorkerExit(t)
  \/ \E t \in Threads : PushLock(t)
  \/ \E t \in Threads : PushBody(t)
  \/ \E t \in Threads : PushNotify(t)
  \/ \E t \in Threads : WaitAndPopLock(t)
  \/ \E t \in Threads : WaitAndPopBody(t)
  \/ \E t \in Threads : SpuriousWake(t)
  \/ \E t \in Threads : ShutdownLock(t)
  \/ \E t \in Threads : ShutdownBody(t)
  \/ \E t \in Threads : ShutdownNotify(t)

FairDrainSpec == PoolInit /\ [][DrainNext]_vars /\ PoolFairness

\* submit([&pool] { pool.wait_all(); }), up to the call of
\* task_queue_.push: a task whose body calls wait_all on the pool that runs
\* it.  One such task is made, so that the task a worker inside wait_all
\* is running is known.
PoolSubmitWaiting(t) ==
  /\ AtRest(t)
  /\ \A k \in 1..Len(tasks) : tasks[k].kind # "waits"
  /\ Room(1 + Cardinality(workers_))
  /\ MakeAndPush(t, "waits", <<>>, "submit")
  /\ UNCHANGED <<queue_, shutdown_, mutex_, cv_, accepted, removed,
                 ctor, others, workers_, pool_shutdown_, barriers, earlier>>

\* The task whose body calls wait_all.
WaitingTask == CHOOSE k \in 1..Len(tasks) : tasks[k].kind = "waits"

\* worker_loop after wait_and_pop returned true, task() with a body that
\* calls wait_all: wait_all up to the push of its first barrier.
WorkerWaitAll(w) ==
  /\ w \in workers_
  /\ ppc[w] = "worker"
  /\ pc[w] = "idle"
  /\ ret[w] = <<"wait_and_pop", "item", "">>
  /\ tasks[task[w]].kind = "waits"
  /\ MakeAndPush(w, "barrier", <<>>, "wa_push")
  /\ barriers' = [barriers EXCEPT ![w] = <<>>]
  /\ earlier' = [earlier EXCEPT ![w] = Returned]
  /\ UNCHANGED <<queue_, shutdown_, mutex_, cv_, accepted, removed,
                 ctor, others, workers_, pool_shutdown_>>

\* The body that called wait_all ends, with the exception of wait_all or
\* without: the packaged task stores the outcome, and worker_loop goes on
\* to its next turn, up to the call of wait_and_pop.
BodyEnds(w, threw) ==
  /\ tasks' = [tasks EXCEPT ![WaitingTask] =
                 [@ EXCEPT !.state = "ready", !.error = threw, !.runs = @ + 1]]
  /\ task' = [task EXCEPT ![w] = NoTask]
  /\ ppc' = [ppc EXCEPT ![w] = "worker"]
  /\ pc' = [pc EXCEPT ![w] = "wap_lock"]
  /\ ret' = [ret EXCEPT ![w] = NoRet]
  /\ barriers' = [barriers EXCEPT ![w] = <<>>]
  /\ earlier' = [earlier EXCEPT ![w] = {}]

\* wait_all called by a task body, after a push: as for a client, and the
\* exception of push ends the body.
WorkerWaitAllPushed(w) ==
  /\ w \in workers_
  /\ ppc[w] = "wa_push"
  /\ pc[w] = "idle"
  /\ ret[w][1] = "push"
  /\ IF ret[w][2] # "ok"
       THEN /\ BodyEnds(w, TRUE)
            /\ UNCHANGED pret
       ELSE IF Len(barriers[w]) + 1 < Cardinality(workers_)
              THEN /\ barriers' = [barriers EXCEPT ![w] = Append(@, task[w])]
                   /\ MakeAndPush(w, "barrier", <<>>, "wa_push")
                   /\ UNCHANGED earlier
              ELSE /\ barriers' = [barriers EXCEPT ![w] = Append(@, task[w])]
                   /\ ppc' = [ppc EXCEPT ![w] = "wa_wait"]
                   /\ task' = [task EXCEPT ![w] = NoTask]
                   /\ UNCHANGED <<pc, ret, tasks, pret, earlier>>
  /\ UNCHANGED <<queue_, shutdown_, mutex_, cv_, accepted, removed,
                 ctor, others, workers_, pool_shutdown_>>

\* wait_all called by a task body: barrier.wait() has returned for every
\* barrier; the body ends.
WorkerWaitAllReturn(w) ==
  /\ w \in workers_
  /\ ppc[w] = "wa_wait"
  /\ \A i \in 1..Len(barriers[w]) : tasks[barriers[w][i]].state = "ready"
  /\ BodyEnds(w, FALSE)
  /\ UNCHANGED <<queue_, shutdown_, mutex_, cv_, accepted, removed,
                 ctor, others, workers_, pool_shutdown_, pret>>

\* A running pool whose clients submit jobs and call wait_all, and submit a
\* task whose body calls wait_all, under the scheduling of the pool.
WaitNext ==
  \/ \E t \in Threads : PoolSubmit(t)
  \/ \E t \in Threads : PoolSubmitWaiting(t)
  \/ \E t \in Threads : SubmitReturn(t)
  \/ \E t \in Threads : PoolWaitAll(t)
  \/ \E t \in Threads : WaitAllPushed(t)
  \/ \E t \in Threads : WaitAllReturn(t)
  \/ \E t \in Threads : WorkerRun(t)
  \/ \E t \in Threads : WorkerWaitAll(t)
  \/ \E t \in Threads : WorkerWaitAllPushed(t)
  \/ \E t \in Threads : WorkerWaitAllReturn(t)
  \/ \E t \in Threads : PushLock(t)
  \/ \E t \in Threads : PushBody(t)
  \/ \E t \in Threads : PushNotify(t)
  \/ \E t \in Threads : WaitAndPopLock(t)
  \/ \E t \in Threads : WaitAndPopBody(t)
  \/ \E t \in Threads : SpuriousWake(t)

WorkerWaitStep(w) ==
  WorkerWaitAll(w) \/ WorkerWaitAllPushed(w) \/ WorkerWaitAllReturn(w)

FairWaitSpec ==
  /\ PoolInit
  /\ [][WaitNext]_vars
  /\ PoolFairness
  /\ \A w \in Threads : WF_vars(WorkerWaitStep(w))

\* The pool used by clients that submit callables that return and callables
\* that throw, and shut it down.
FailNext ==
  \/ \E t \in Threads : PoolSubmit(t)
  \/ \E t \in Threads : PoolSubmitThrowing(t)
  \/ \E t \in Threads : SubmitReturn(t)
  \/ \E t \in Threads : PoolShutdown(t)
  \/ \E t \in Threads : PoolShutdownJoined(t)
  \/ \E t \in Threads : WorkerRun(t)
  \/ \E t \in Threads : WorkerExit(t)
  \/ \E t \in Threads : PushLock(t)
  \/ \E t \in Threads : PushBody(t)
  \/ \E t \in Threads : PushNotify(t)
  \/ \E t \in Threads : WaitAndPopLock(t)
  \/ \E t \in Threads : WaitAndPopBody(t)
  \/ \E t \in Threads : SpuriousWake(t)
  \/ \E t \in Threads : ShutdownLock(t)
  \/ \E t \in Threads : ShutdownBody(t)
  \/ \E t \in Threads : ShutdownNotify(t)

FailSpec == PoolInit /\ [][FailNext]_vars

----------------------------------------------------------------------------
\* CountDownLatch: a count guarded by a mutex, and a condition variable on
\* which wait() blocks until the count is 0.  A member function is split
\* where another thread can observe it: taking the mutex, and the critical
\* section, which ends by releasing the mutex or by blocking on the
\* condition variable.  count_down notifies inside its critical section.

MaxCount == 3

\* The threads that use a latch on its own, and the arguments they pass to
\* count_down(n).
Callers == {1, 2, 3}
CountDownArgs == {0, 2}

\* The queue and the pool are not used.
NoPool ==
  /\ queue_ = <<>>
  /\ shutdown_ = FALSE
  /\ mutex_ = NoThread
  /\ cv_ = {}
  /\ pc = [t \in Threads |-> "idle"]
  /\ ret = [t \in Threads |-> NoRet]
  /\ accepted = <<>>
  /\ removed = <<>>
  /\ ctor = NoCtor
  /\ workers_ = {}
  /\ pool_shutdown_ = FALSE
  /\ ppc = [t \in Threads |-> "client"]
  /\ task = [t \in Threads |-> NoTask]
  /\ tasks = <<>>
  /\ barriers = [t \in Threads |-> <<>>]
  /\ earlier = [t \in Threads |-> {}]
  /\ pret = [t \in Threads |-> NoPoolRet]

\* What the latch leaves alone.
latchrest == <<queue_, shutdown_, mutex_, cv_, pc, ret, accepted, removed,
               ctor, workers_, pool_shutdown_, ppc, task, tasks, barriers,
               earlier, pret, tablevars>>

\* Mutant of CountDown: the count is decremented without the test.
CountDownUnguarded(c) == c - 1

\* count_down(): if (count_ > 0) --count_.
CountDown(c) == IF c > 0 THEN c - 1 ELSE c

\* count_down(n): count_ = count_ >= n ? count_ - n : 0.
CountDownBy(c, n) == IF c >= n THEN c - n ELSE 0

\* The predicate of wait() and the value of is_done(): count_ == 0.
Done(c) == c = 0

\* CountDownLatch init_latch(count), with a count up to MaxCount; the
\* other latch is not used.
LatchInit ==
  /\ NoPool
  /\ \E c \in 0..MaxCount : count_ = [L \in Latches |-> IF L = "init_latch" THEN c ELSE 0]
  /\ LatchesFresh
  /\ NoTest
  /\ NoTable

\* Thread t calls a member function of latch L: it is about to take the
\* mutex.
LatchCall(t, f, L, n) ==
  /\ lpc[t].at = "idle"
  /\ lpc' = [lpc EXCEPT ![t] = [at |-> f, on |-> L, n |-> n]]
  /\ lret' = [lret EXCEPT ![t] = NoLatchRet]

CallCountDown(t, L) ==
  /\ LatchCall(t, "cd_lock", L, 0)
  /\ UNCHANGED <<count_, latch_mutex_, latch_cv_, test, wk, latchrest>>

CallCountDownBy(t, L) ==
  /\ \E n \in CountDownArgs : LatchCall(t, "cdn_lock", L, n)
  /\ UNCHANGED <<count_, latch_mutex_, latch_cv_, test, wk, latchrest>>

CallWait(t, L) ==
  /\ LatchCall(t, "wait_lock", L, 0)
  /\ UNCHANGED <<count_, latch_mutex_, latch_cv_, test, wk, latchrest>>

CallGetCount(t, L) ==
  /\ LatchCall(t, "gc_lock", L, 0)
  /\ UNCHANGED <<count_, latch_mutex_, latch_cv_, test, wk, latchrest>>

CallIsDone(t, L) ==
  /\ LatchCall(t, "id_lock", L, 0)
  /\ UNCHANGED <<count_, latch_mutex_, latch_cv_, test, wk, latchrest>>

\* The critical section that follows each lock.
AfterLock(at) ==
  CASE at = "cd_lock" -> "cd_cs"
    [] at = "cdn_lock" -> "cdn_cs"
    [] at = "wait_lock" -> "wait_cs"
    [] at = "gc_lock" -> "gc_cs"
    [] at = "id_lock" -> "id_cs"
    [] OTHER -> at

\* std::lock_guard / std::unique_lock constructor (and the mutex taken
\* again when cv_.wait is unblocked): mutex_.lock().
LatchLock(t) ==
  /\ lpc[t].at \in {"cd_lock", "cdn_lock", "wait_lock", "gc_lock", "id_lock"}
  /\ latch_mutex_[lpc[t].on] = NoThread
  /\ latch_mutex_' = [latch_mutex_ EXCEPT ![lpc[t].on] = t]
  /\ lpc' = [lpc EXCEPT ![t].at = AfterLock(@)]
  /\ UNCHANGED <<count_, latch_cv_, lret, test, wk, latchrest>>

\* The end of a critical section of thread t that makes the count of its
\* latch c: cv_.notify_all() if notify, the mutex is released, the function
\* returns result.  A thread unblocked from cv_.wait must take the mutex
\* again.
LatchLeave(t, c, notify, result) ==
  LET L == lpc[t].on
      W == IF notify THEN latch_cv_[L] ELSE {}
  IN /\ latch_mutex_[L] = t
     /\ count_' = [count_ EXCEPT ![L] = c]
     /\ latch_cv_' = [latch_cv_ EXCEPT ![L] = @ \ W]
     /\ latch_mutex_' = [latch_mutex_ EXCEPT ![L] = NoThread]
     /\ lpc' = [x \in LatchThreads |->
                 IF x = t THEN LatchIdle
                 ELSE IF x \in W THEN [lpc[x] EXCEPT !.at = "wait_lock"]
                 ELSE lpc[x]]
     /\ lret' = [lret EXCEPT ![t] = result]

\* count_down(), under the lock.
CountDownBody(t) ==
  /\ lpc[t].at = "cd_cs"
  /\ LET c == count_[lpc[t].on]
     IN LatchLeave(t, CountDown(c), c > 0 /\ CountDown(c) = 0,
                   <<"count_down", "">>)
  /\ UNCHANGED <<test, wk, latchrest>>

\* Mutant of CountDownByBody: count_down(n) does not notify.
CountDownByNoNotify(t) ==
  /\ lpc[t].at = "cdn_cs"
  /\ LET c == CountDownBy(count_[lpc[t].on], lpc[t].n)
     IN LatchLeave(t, c, FALSE, <<"count_down_n", "">>)
  /\ UNCHANGED <<test, wk, latchrest>>

\* count_down(n), under the lock.
CountDownByBody(t) ==
  /\ lpc[t].at = "cdn_cs"
  /\ LET c == CountDownBy(count_[lpc[t].on], lpc[t].n)
     IN LatchLeave(t, c, c = 0, <<"count_down_n", "">>)
  /\ UNCHANGED <<test, wk, latchrest>>

\* wait(), under the lock: cv_.wait(lock, [this] { return count_ == 0; })
\* returns if the predicate holds, and otherwise releases the mutex and
\* blocks on cv_.
WaitBody(t) ==
  /\ lpc[t].at = "wait_cs"
  /\ IF Done(count_[lpc[t].on])
       THEN LatchLeave(t, count_[lpc[t].on], FALSE, <<"wait", "returned">>)
       ELSE /\ latch_mutex_[lpc[t].on] = t
            /\ latch_mutex_' = [latch_mutex_ EXCEPT ![lpc[t].on] = NoThread]
            /\ latch_cv_' = [latch_cv_ EXCEPT ![lpc[t].on] = @ \cup {t}]
            /\ lpc' = [lpc EXCEPT ![t].at = "wait_parked"]
            /\ UNCHANGED <<count_, lret>>
  /\ UNCHANGED <<test, wk, latchrest>>

\* cv_.wait may be unblocked without a notify.
LatchSpuriousWake(t) ==
  /\ lpc[t].at = "wait_parked"
  /\ t \in latch_cv_[lpc[t].on]
  /\ latch_cv_' = [latch_cv_ EXCEPT ![lpc[t].on] = @ \ {t}]
  /\ lpc' = [lpc EXCEPT ![t].at = "wait_lock"]
  /\ UNCHANGED <<count_, latch_mutex_, lret, test, wk, latchrest>>

\* get_count(), under the lock: return count_.
GetCountBody(t) ==
  /\ lpc[t].at = "gc_cs"
  /\ LatchLeave(t, count_[lpc[t].on], FALSE,
                <<"get_count", ToString(count_[lpc[t].on])>>)
  /\ UNCHANGED <<test, wk, latchrest>>

\* is_done(), under the lock: return count_ == 0.
IsDoneBody(t) ==
  /\ lpc[t].at = "id_cs"
  /\ LatchLeave(t, count_[lpc[t].on], FALSE,
                <<"is_done", IF Done(count_[lpc[t].on]) THEN "true" ELSE "false">>)
  /\ UNCHANGED <<test, wk, latchrest>>

\* Threads that call the member functions of a latch in any order.
LatchNext ==
  \/ \E t \in Callers : CallCountDown(t, "init_latch")
  \/ \E t \in Callers : CallCountDownBy(t, "init_latch")
  \/ \E t \in Callers : CallWait(t, "init_latch")
  \/ \E t \in Callers : CallGetCount(t, "init_latch")
  \/ \E t \in Callers : CallIsDone(t, "init_latch")
  \/ \E t \in Callers : LatchLock(t)
  \/ \E t \in Callers : CountDownBody(t)
  \/ \E t \in Callers : CountDownByBody(t)
  \/ \E t \in Callers : WaitBody(t)
  \/ \E t \in Callers : LatchSpuriousWake(t)
  \/ \E t \in Callers : GetCountBody(t)
  \/ \E t \in Callers : IsDoneBody(t)

LatchSpec == LatchInit /\ [][LatchNext]_vars

\* Scheduling of the threads that use a latch: a thread that can run its
\* critical section eventually does, and a thread that asks for the mutex
\* again and again eventually gets it.  Nothing obliges a thread to make a
\* call or a spurious wake-up to happen.
LatchRunStep(t) ==
  \/ CountDownBody(t) \/ CountDownByBody(t) \/ WaitBody(t)
  \/ GetCountBody(t) \/ IsDoneBody(t)

LatchFairness(S) ==
  \A t \in S : WF_vars(LatchRunStep(t)) /\ SF_vars(LatchLock(t))

FairLatchSpec == LatchSpec /\ LatchFairness(Callers)

\* The end-to-end flow of the latch test.  The test thread runs, for i from
\* 0 to the number of workers: start worker i, init_latch.wait(),
\* start_latch.count_down(), join every joinable worker.  A worker runs
\* init_latch.count_down(), start_latch.wait(), and ends.  The flow is
\* modelled for each number of workers from 1 to NUM_WORKERS (test.num);
\* the test itself runs it with NUM_WORKERS.  Worker i of the test is
\* thread i + 1.
TestInit ==
  /\ NoPool
  /\ \E num \in 1..NUM_WORKERS :
       /\ count_ = [L \in Latches |-> IF L = "init_latch" THEN num ELSE 1]
       /\ test = [num |-> num, i |-> 0, at |-> "loop", joined |-> {}]
  /\ LatchesFresh
  /\ wk = [w \in 1..NUM_WORKERS |-> "unborn"]
  /\ NoTable

\* The latch call of thread t has returned.
LatchReturned(t) == lpc[t].at = "idle" /\ lret[t] # NoLatchRet

\* for (int i = 0; i < NUM_WORKERS; i++) { workers.emplace_back(...)
TestSpawn ==
  /\ test.at = "loop"
  /\ test.i < test.num
  /\ wk' = [wk EXCEPT ![test.i + 1] = "started"]
  /\ test' = [test EXCEPT !.at = "spawned"]
  /\ UNCHANGED <<count_, latch_mutex_, latch_cv_, lpc, lret, latchrest>>

\* The loop ends when i reaches the number of workers.
TestEnd ==
  /\ test.at = "loop"
  /\ test.i >= test.num
  /\ test' = [test EXCEPT !.at = "done"]
  /\ UNCHANGED <<count_, latch_mutex_, latch_cv_, lpc, lret, wk, latchrest>>

\* init_latch.wait(), in the body of the loop.
TestWait ==
  /\ test.at = "spawned"
  /\ LatchCall(MainThread, "wait_lock", "init_latch", 0)
  /\ test' = [test EXCEPT !.at = "waiting"]
  /\ UNCHANGED <<count_, latch_mutex_, latch_cv_, wk, latchrest>>

\* start_latch.count_down(), once init_latch.wait() has returned.
TestStart ==
  /\ test.at = "waiting"
  /\ LatchReturned(MainThread)
  /\ LatchCall(MainThread, "cd_lock", "start_latch", 0)
  /\ test' = [test EXCEPT !.at = "counting"]
  /\ UNCHANGED <<count_, latch_mutex_, latch_cv_, wk, latchrest>>

\* The workers started so far that have not been joined.
Joinable == (1..(test.i + 1)) \ test.joined

\* for (auto &t : workers) if (t.joinable()) t.join(): the loop is entered
\* once start_latch.count_down() has returned.
TestJoin ==
  /\ test.at = "counting"
  /\ LatchReturned(MainThread)
  /\ test' = [test EXCEPT !.at = "joining"]
  /\ UNCHANGED <<count_, latch_mutex_, latch_cv_, lpc, lret, wk, latchrest>>

\* t.join() of the first joinable worker returns when that worker has
\* ended.
TestJoinOne ==
  /\ test.at = "joining"
  /\ Joinable # {}
  /\ LET w == CHOOSE x \in Joinable : \A y \in Joinable : x <= y
     IN /\ wk[w] = "finished"
        /\ test' = [test EXCEPT !.joined = @ \cup {w}]
  /\ UNCHANGED <<count_, latch_mutex_, latch_cv_, lpc, lret, wk, latchrest>>

\* The end of the body of the loop: i++.
TestIterate ==
  /\ test.at = "joining"
  /\ Joinable = {}
  /\ test' = [test EXCEPT !.at = "loop", !.i = @ + 1]
  /\ UNCHANGED <<count_, latch_mutex_, latch_cv_, lpc, lret, wk, latchrest>>

\* The worker sleeps and prints that it is ready.
WorkerReady(w) ==
  /\ wk[w] = "started"
  /\ wk' = [wk EXCEPT ![w] = "ready"]
  /\ UNCHANGED <<count_, latch_mutex_, latch_cv_, lpc, lret, test, latchrest>>

\* init_latch.count_down()
WorkerCountDown(w) ==
  /\ wk[w] = "ready"
  /\ LatchCall(w, "cd_lock", "init_latch", 0)
  /\ wk' = [wk EXCEPT ![w] = "counted"]
  /\ UNCHANGED <<count_, latch_mutex_, latch_cv_, test, latchrest>>

\* start_latch.wait(), once init_latch.count_down() has returned.
WorkerStartWait(w) ==
  /\ wk[w] = "counted"
  /\ LatchReturned(w)
  /\ LatchCall(w, "wait_lock", "start_latch", 0)
  /\ wk' = [wk EXCEPT ![w] = "waiting"]
  /\ UNCHANGED <<count_, latch_mutex_, latch_cv_, test, latchrest>>

\* start_latch.wait() has returned: the worker sleeps and prints that it
\* is working.
WorkerWork(w) ==
  /\ wk[w] = "waiting"
  /\ LatchReturned(w)
  /\ wk' = [wk EXCEPT ![w] = "working"]
  /\ UNCHANGED <<count_, latch_mutex_, latch_cv_, lpc, lret, test, latchrest>>

\* The lambda of the worker returns.
WorkerFinish(w) ==
  /\ wk[w] = "working"
  /\ wk' = [wk EXCEPT ![w] = "finished"]
  /\ UNCHANGED <<count_, latch_mutex_, latch_cv_, lpc, lret, test, latchrest>>

TestNext ==
  \/ TestSpawn
  \/ TestEnd
  \/ TestWait
  \/ TestStart
  \/ TestJoin
  \/ TestJoinOne
  \/ TestIterate
  \/ \E w \in 1..NUM_WORKERS : WorkerReady(w)
  \/ \E w \in 1..NUM_WORKERS : WorkerCountDown(w)
  \/ \E w \in 1..NUM_WORKERS : WorkerStartWait(w)
  \/ \E w \in 1..NUM_WORKERS : WorkerWork(w)
  \/ \E w \in 1..NUM_WORKERS : WorkerFinish(w)
  \/ \E t \in LatchThreads : LatchLock(t)
  \/ \E t \in LatchThreads : CountDownBody(t)
  \/ \E t \in LatchThreads : WaitBody(t)
  \/ \E t \in LatchThreads : LatchSpuriousWake(t)

TestSpec == TestInit /\ [][TestNext]_vars

\* Scheduling of the test: the test thread and every worker keep running
\* while they can take a step.
TestStep ==
  \/ TestSpawn \/ TestEnd \/ TestWait \/ TestStart
  \/ TestJoin \/ TestJoinOne \/ TestIterate

TestWorkerStep(w) ==
  \/ WorkerReady(w) \/ WorkerCountDown(w) \/ WorkerStartWait(w)
  \/ WorkerWork(w) \/ WorkerFinish(w)

FairTestSpec ==
  /\ TestSpec
  /\ LatchFairness(LatchThreads)
  /\ WF_vars(TestStep)
  /\ \A w \in 1..NUM_WORKERS : WF_vars(TestWorkerStep(w))

\* DinerPhilosopher: n_ philosopher threads around n_ forks, each fork a
\* std::timed_mutex.  A philosopher takes the lower-numbered of its two
\* forks first, with try_lock_for, and gives the first back when it cannot
\* get the second.  philosopher(id) is split where another thread can
\* observe it: at each read of running_ and at each lock and unlock.  The
\* count of meals, which is only printed, is left out.

\* What the table leaves alone.
tablerest == <<queue_, shutdown_, mutex_, cv_, pc, ret, accepted, removed,
               ctor, workers_, pool_shutdown_, ppc, task, tasks, barriers,
               earlier, pret, count_, latch_mutex_, latch_cv_, lpc, lret,
               test, wk>>

\* The owner of a mutex whose owning thread has ended.
Gone == -1

\* DinerPhilosopher table(n): n_(n), forks_(n), running_(true), for n from
\* 2 to MaxPhilosophers.
TableInit ==
  /\ NoPool
  /\ count_ = [L \in Latches |-> 0]
  /\ LatchesFresh
  /\ NoTest
  /\ n_ \in 2..MaxPhilosophers
  /\ running_ = TRUE
  /\ TableFresh

\* int left = id; int right = (id + 1) % n_;
Left(id) == id
Right(id) == (id + 1) % n_

\* int first = std::min(left, right); int second = std::max(left, right);
First(id) == IF Left(id) <= Right(id) THEN Left(id) ELSE Right(id)
Second(id) == IF Left(id) <= Right(id) THEN Right(id) ELSE Left(id)

\* Mutant of TryLockFor: the fork is taken although it has an owner.
TryLockForTaken(f, p, ok) ==
  IF ok THEN forks_' = [forks_ EXCEPT ![f] = @ \cup {p}]
        ELSE UNCHANGED forks_

\* forks_[f].try_lock_for(5ms) by thread p, returning ok: true only if the
\* fork has no owner, and then p owns it; it may also return false, when
\* the time is over and whenever the implementation chooses to.
TryLockFor(f, p, ok) ==
  IF ok THEN /\ forks_[f] = {}
             /\ forks_' = [forks_ EXCEPT ![f] = {p}]
        ELSE UNCHANGED forks_

\* forks_[f].unlock() by thread p.
UnlockFork(f, p) == forks_' = [forks_ EXCEPT ![f] = @ \ {p}]

\* start(): if no thread exists, running_ = true and the loop that makes
\* the threads begins.
TableStart ==
  /\ table.at = "idle"
  /\ philosophers_ = {}
  /\ running_' = TRUE
  /\ table' = [at |-> "starting", i |-> 0, joined |-> {}]
  /\ UNCHANGED <<n_, forks_, philosophers_, phil, tablerest>>

\* start() while threads exist: if (!philosophers_.empty()) return.
TableStartAgain ==
  /\ table.at = "idle"
  /\ philosophers_ # {}
  /\ UNCHANGED <<tablevars, tablerest>>

\* philosophers_.emplace_back(&DinerPhilosopher::philosopher, this, i)
TableSpawn ==
  /\ table.at = "starting"
  /\ table.i < n_
  /\ philosophers_' = philosophers_ \cup {table.i}
  /\ phil' = [phil EXCEPT ![table.i] = "outer"]
  /\ table' = [table EXCEPT !.i = @ + 1]
  /\ UNCHANGED <<n_, forks_, running_, tablerest>>

\* start() returns when the loop has made n_ threads.
TableStarted ==
  /\ table.at = "starting"
  /\ table.i >= n_
  /\ table' = TableIdle
  /\ UNCHANGED <<n_, forks_, philosophers_, running_, phil, tablerest>>

\* stop(): running_ = false, and the loop that joins the threads begins.
\* run_for is start(), a sleep and stop(); the destructor is stop().
TableStop ==
  /\ table.at = "idle"
  /\ running_' = FALSE
  /\ table' = [at |-> "stopping", i |-> 0, joined |-> {}]
  /\ UNCHANGED <<n_, forks_, philosophers_, phil, tablerest>>

\* The threads stop() has still to join.
Unjoined == philosophers_ \ table.joined

\* if (t.joinable()) t.join(): the join of the first thread not yet joined
\* returns when that thread has ended.
TableJoin ==
  /\ table.at = "stopping"
  /\ Unjoined # {}
  /\ LET p == CHOOSE x \in Unjoined : \A y \in Unjoined : x <= y
     IN /\ phil[p] = "finished"
        /\ table' = [table EXCEPT !.joined = @ \cup {p}]
  /\ UNCHANGED <<n_, forks_, philosophers_, running_, phil, tablerest>>

\* philosophers_.clear(), and stop() returns.
TableStopped ==
  /\ table.at = "stopping"
  /\ Unjoined = {}
  /\ philosophers_' = {}
  /\ phil' = [p \in Ids |-> "none"]
  /\ table' = TableIdle
  /\ UNCHANGED <<n_, forks_, running_, tablerest>>

\* A step of philosopher(id) that moves it to position at and leaves the
\* forks alone.
PhilGoes(id, at) ==
  /\ phil' = [phil EXCEPT ![id] = at]
  /\ UNCHANGED <<n_, philosophers_, running_, table, tablerest>>

\* while (running_) { sleep_for(...): the outer loop.
PhilOuter(id) ==
  /\ phil[id] = "outer"
  /\ PhilGoes(id, IF running_ THEN "inner" ELSE "exit")
  /\ UNCHANGED forks_

\* while (running_) {: the inner loop; when it ends without a break the
\* test of running_ after it follows.
PhilInner(id) ==
  /\ phil[id] = "inner"
  /\ PhilGoes(id, IF running_ THEN "try_first" ELSE "check")
  /\ UNCHANGED forks_

\* if (forks_[first].try_lock_for(5ms)) {
PhilTryFirst(id) ==
  /\ phil[id] = "try_first"
  /\ \E ok \in BOOLEAN :
       /\ TryLockFor(First(id), id, ok)
       /\ PhilGoes(id, IF ok THEN "try_second" ELSE "inner")

\* if (forks_[second].try_lock_for(5ms)) break;
PhilTrySecond(id) ==
  /\ phil[id] = "try_second"
  /\ \E ok \in BOOLEAN :
       /\ TryLockFor(Second(id), id, ok)
       /\ PhilGoes(id, IF ok THEN "check" ELSE "unlock_first")

\* forks_[first].unlock(), when the second fork was not got.
PhilUnlockFirst(id) ==
  /\ phil[id] = "unlock_first"
  /\ UnlockFork(First(id), id)
  /\ PhilGoes(id, "inner")

\* if (!running_) break;
PhilCheck(id) ==
  /\ phil[id] = "check"
  /\ PhilGoes(id, IF running_ THEN "eat" ELSE "exit")
  /\ UNCHANGED forks_

\* eat_count++; sleep_for(...); forks_[first].unlock();
PhilEat(id) ==
  /\ phil[id] = "eat"
  /\ UnlockFork(First(id), id)
  /\ PhilGoes(id, "put_second")

\* forks_[second].unlock(); and the outer loop goes round.
PhilPutSecond(id) ==
  /\ phil[id] = "put_second"
  /\ UnlockFork(Second(id), id)
  /\ PhilGoes(id, "outer")

\* After the outer loop: the count of meals is printed and the thread
\* ends.  The behaviour of a thread that ends while it owns a mutex is
\* undefined: the mutex stays locked with an owner that is gone, or the
\* implementation frees it.
PhilExit(id) ==
  /\ phil[id] = "exit"
  /\ \E kept \in BOOLEAN :
       forks_' = [f \in Ids |->
                   IF id \in forks_[f]
                     THEN (IF kept THEN {Gone} ELSE {})
                     ELSE forks_[f]]
  /\ PhilGoes(id, "finished")

TableNext ==
  \/ TableStart
  \/ TableStartAgain
  \/ TableSpawn
  \/ TableStarted
  \/ TableStop
  \/ TableJoin
  \/ TableStopped
  \/ \E id \in Ids : PhilOuter(id)
  \/ \E id \in Ids : PhilInner(id)
  \/ \E id \in Ids : PhilTryFirst(id)
  \/ \E id \in Ids : PhilTrySecond(id)
  \/ \E id \in Ids : PhilUnlockFirst(id)
  \/ \E id \in Ids : PhilCheck(id)
  \/ \E id \in Ids : PhilEat(id)
  \/ \E id \in Ids : PhilPutSecond(id)
  \/ \E id \in Ids : PhilExit(id)

TableSpec == TableInit /\ [][TableNext]_vars

\* Scheduling of the table: every philosopher thread keeps running, and
\* the thread inside start() or stop() goes on whenever it can.  Nothing
\* obliges anybody to call start() or stop().
PhilStep(id) ==
  \/ PhilOuter(id) \/ PhilInner(id) \/ PhilTryFirst(id) \/ PhilTrySecond(id)
  \/ PhilUnlockFirst(id) \/ PhilCheck(id) \/ PhilEat(id)
  \/ PhilPutSecond(id) \/ PhilExit(id)

TableStep == TableSpawn \/ TableStarted \/ TableJoin \/ TableStopped

FairTableSpec ==
  /\ TableSpec
  /\ WF_vars(TableStep)
  /\ \A id \in Ids : WF_vars(PhilStep(id))

----------------------------------------------------------------------------
\* Notions the properties are stated with.

\* The items that have left the queue, in the order they left it.
RemovedItems == [i \in 1..Len(removed) |-> removed[i].item]

\* The multiset of the elements of a sequence.
SeqToBag(s) ==
  [x \in {s[i] : i \in 1..Len(s)} |-> Cardinality({i \in 1..Len(s) : s[i] = x})]

\* The record a pop of the head of the queue leaves in the history.
HeadRemoved == Append(removed, [item |-> Head(queue_), closed |-> shutdown_])

\* Thread t leaves position p with this step.
Leaves(t, p) == pc[t] = p /\ pc'[t] # p

\* C1: the items leave the queue in the order their pushes were accepted:
\* the sequence of removed items is a prefix of the sequence of accepted
\* items, and the queue holds exactly the rest, in the same order.
C1_Fifo ==
  /\ Len(removed) <= Len(accepted)
  /\ RemovedItems = SubSeq(accepted, 1, Len(removed))
  /\ queue_ = SubSeq(accepted, Len(removed) + 1, Len(accepted))

\* Three items were pushed and all three have been popped, and two
\* different threads have an item as the result of their last call.
C1_Witness ==
  /\ Len(removed) = 3
  /\ \E t, u \in Threads : t # u /\ ret[t][2] = "item" /\ ret[u][2] = "item"

\* C2: no loss, no duplication: the multiset of accepted items is the
\* multiset of queued items plus the multiset of items handed to consumers;
\* no accepted item is handed out twice or handed out while still queued;
\* once the queue is shut down and drained, what was consumed is what was
\* produced.
C2_NoLossNoDup ==
  /\ SeqToBag(accepted) = SeqToBag(queue_) (+) SeqToBag(RemovedItems)
  /\ \A i, j \in 1..Len(removed) : i # j => removed[i].item # removed[j].item
  /\ \A i \in 1..Len(removed), j \in 1..Len(queue_) :
       removed[i].item # queue_[j]
  /\ (shutdown_ /\ queue_ = <<>>)
       => SeqToBag(RemovedItems) = SeqToBag(accepted)

\* The queue is shut down and drained after three accepted pushes, with
\* every thread having consumed an item.
C2_Witness ==
  /\ shutdown_
  /\ queue_ = <<>>
  /\ Len(accepted) = 3
  /\ Len(removed) = 3
  /\ \A t \in Threads : ret[t][2] = "item"

\* What the critical section of a push by thread t must do.
PushStep(t) ==
  Leaves(t, "push_cs") =>
    IF shutdown_
      THEN /\ pc'[t] = "idle"
           /\ ret'[t] = <<"push", "closed_error", "">>
           /\ queue_' = queue_
      ELSE /\ pc'[t] = "push_notify"
           /\ ret'[t] = NoRet
           /\ Len(queue_') = Len(queue_) + 1
           /\ SubSeq(queue_', 1, Len(queue_)) = queue_
           /\ queue_'[Len(queue_')] = accepted'[Len(accepted')]
           /\ Len(accepted') = Len(accepted) + 1

\* An accepted push ends by returning normally.
PushReturns(t) ==
  Leaves(t, "push_notify") =>
    pc'[t] = "idle" /\ ret'[t] = <<"push", "ok", "">> /\ queue_' = queue_

\* C3: a push or emplace that finds the queue shut down fails with the
\* closed error and leaves the queued items unchanged; one that finds it
\* open succeeds and appends its item at the tail.
C3_PushClosedOrAppend ==
  /\ [](\A t \in Threads : ret[t][2] = "closed_error" => shutdown_)
  /\ [][\A t \in Threads : PushStep(t) /\ PushReturns(t)]_vars

\* One push was refused on a shut-down queue that still holds an item, and
\* another push was accepted.
C3_Witness ==
  /\ queue_ # <<>>
  /\ \E t, u \in Threads :
       ret[t] = <<"push", "closed_error", "">> /\ ret[u] = <<"push", "ok", "">>

\* What wait_and_pop by thread t must do each time it evaluates its
\* predicate under the lock.
WaitAndPopStep(t) ==
  Leaves(t, "wap_cs") =>
    IF queue_ # <<>>
      THEN /\ pc'[t] = "idle"
           /\ ret'[t] = <<"wait_and_pop", "item", "">>
           /\ queue_' = Tail(queue_)
           /\ removed' = HeadRemoved
      ELSE IF shutdown_
             THEN /\ pc'[t] = "idle"
                  /\ ret'[t] = <<"wait_and_pop", "empty", "">>
                  /\ queue_' = queue_
             ELSE /\ pc'[t] = "wap_wait"
                  /\ ret'[t] = NoRet
                  /\ queue_' = queue_

\* C4: wait_and_pop returns empty only when the queue is shut down and holds
\* no item (which then stays so); on an open empty queue it blocks instead;
\* when it returns an item, that item was the head and has been removed.
C4_WaitAndPop ==
  /\ [](\A t \in Threads :
          ret[t] = <<"wait_and_pop", "empty", "">> => shutdown_ /\ queue_ = <<>>)
  /\ [][\A t \in Threads : WaitAndPopStep(t)]_vars

\* One wait_and_pop returned an item and another returned empty.
C4_Witness ==
  \E t, u \in Threads :
    /\ ret[t] = <<"wait_and_pop", "item", "">>
    /\ ret[u] = <<"wait_and_pop", "empty", "">>

\* C5: a consumer blocked in wait_and_pop on an empty queue that has been
\* shut down eventually returns, with the empty result; no push is accepted
\* after the shutdown, so it cannot return anything else.
C5_ShutdownWakesAll ==
  \A t \in Threads :
    (pc[t] = "wap_wait" /\ shutdown_ /\ queue_ = <<>>)
      ~> (pc[t] = "idle" /\ ret[t] = <<"wait_and_pop", "empty", "">>)

\* Two consumers are blocked in wait_and_pop on the empty queue when
\* shutdown() has set the flag and is about to notify.
C5_Witness ==
  /\ shutdown_
  /\ queue_ = <<>>
  /\ \E s \in Threads : pc[s] = "sd_notify"
  /\ \E t, u \in Threads : t # u /\ pc[t] = "wap_wait" /\ pc[u] = "wap_wait"

\* A step of shutdown() by thread t leaves the queued items alone.
ShutdownKeepsItems(t) ==
  (pc[t] \in {"sd_lock", "sd_cs", "sd_notify"} /\ pc'[t] # pc[t])
    => queue_' = queue_ /\ removed' = removed

\* After shutdown, try_pop and wait_and_pop by thread t return at once: the
\* head while there is one, then empty.
DrainStep(t) ==
  (shutdown_ /\ pc[t] \in {"try_cs", "wap_cs"} /\ pc'[t] # pc[t]) =>
    /\ pc'[t] = "idle"
    /\ IF queue_ = <<>>
         THEN ret'[t][2] = "empty" /\ queue_' = queue_ /\ removed' = removed
         ELSE /\ ret'[t][2] = "item"
              /\ queue_' = Tail(queue_)
              /\ removed' = Append(removed, [item |-> Head(queue_), closed |-> TRUE])

\* C6: shutdown() leaves the queued items unchanged; after it, try_pop and
\* wait_and_pop return without blocking, each remaining item in FIFO order
\* (the queue only ever loses its head) and then empty.
C6_DrainAfterShutdown ==
  [][/\ \A t \in Threads : ShutdownKeepsItems(t) /\ DrainStep(t)
     /\ shutdown_ => \/ queue_' = queue_
                     \/ queue_ # <<>> /\ queue_' = Tail(queue_)]_vars

\* Two items were queued at shutdown, both were popped after it, in order,
\* and a later pop returned empty.
C6_Witness ==
  /\ shutdown_
  /\ Len(removed) >= 2
  /\ \A i \in 1..Len(removed) : removed[i].closed
  /\ RemovedItems = accepted
  /\ \E t \in Threads : ret[t] = <<"try_pop", "empty", "">>
  /\ \E t \in Threads : ret[t] = <<"wait_and_pop", "item", "">>

\* No member function has been called yet.
Fresh == \A t \in Threads : pc[t] = "idle" /\ ret[t] = NoRet

\* The critical section of shutdown() by thread t sets the flag; a repeated
\* shutdown() changes nothing.
ShutdownStep(t) ==
  Leaves(t, "sd_cs") =>
    /\ shutdown_'
    /\ queue_' = queue_
    /\ shutdown_ => UNCHANGED <<shutdown_, queue_, accepted, removed>>

\* is_shutdown() by thread t returns the flag.
IsShutdownStep(t) ==
  Leaves(t, "is_cs") =>
    ret'[t] = <<"is_shutdown", IF shutdown_ THEN "true" ELSE "false", "">>

\* C7: the closed flag is false on a fresh queue, true once a shutdown() has
\* returned, and no step of any member function makes it false again;
\* is_shutdown() reports it; a repeated shutdown() changes neither the flag
\* nor the queued items.
C7_ShutdownMonotonic ==
  /\ [](Fresh => ~shutdown_)
  /\ [](\A t \in Threads :
          ret[t] \in {<<"shutdown", "ok", "">>, <<"is_shutdown", "true", "">>}
            => shutdown_)
  /\ [][/\ shutdown_ => shutdown_'
        /\ \A t \in Threads : ShutdownStep(t) /\ IsShutdownStep(t)]_vars

\* A second shutdown() has set the flag again while an item is queued, and
\* is_shutdown() has returned true.
C7_Witness ==
  /\ queue_ # <<>>
  /\ \E t, u, w \in Threads :
       /\ ret[t] = <<"shutdown", "ok", "">>
       /\ pc[u] = "sd_notify"
       /\ ret[w] = <<"is_shutdown", "true", "">>

\* What try_pop by thread t must do under the lock.
TryPopStep(t) ==
  Leaves(t, "try_cs") =>
    /\ pc'[t] = "idle"
    /\ shutdown_' = shutdown_
    /\ IF queue_ = <<>>
         THEN /\ ret'[t] = <<"try_pop", "empty", "">>
              /\ queue_' = queue_
              /\ removed' = removed
         ELSE /\ ret'[t] = <<"try_pop", "item", "">>
              /\ queue_' = Tail(queue_)
              /\ removed' = HeadRemoved

\* C8: try_pop never waits on the condition variable and its critical
\* section can always run to the end; it returns empty exactly when the
\* queue holds no item when it has the lock, open or closed, and otherwise
\* removes and returns the head; it returns nothing else.
C8_TryPop ==
  /\ [](\A t \in Threads :
          /\ pc[t] \in {"try_lock", "try_cs"} => t \notin cv_
          /\ pc[t] = "try_cs" => ENABLED TryPopBody(t)
          /\ ret[t][1] = "try_pop" => ret[t][2] \in {"item", "empty"})
  /\ [][\A t \in Threads : TryPopStep(t)]_vars

\* On a shut-down queue one try_pop has returned an item that was removed
\* after the shutdown, and another try_pop has returned empty.
C8_Witness ==
  /\ shutdown_
  /\ \E i \in 1..Len(removed) : removed[i].closed
  /\ \E t \in Threads : ret[t] = <<"try_pop", "item", "">>
  /\ \E t \in Threads : ret[t] = <<"try_pop", "empty", "">>

\* The notify of an accepted push by thread t unblocks exactly one of the
\* threads blocked on the condition variable, when there is one.
NotifyStep(t) ==
  Leaves(t, "push_notify") =>
    IF cv_ = {}
      THEN cv_' = {}
      ELSE \E w \in cv_ :
             /\ cv_' = cv_ \ {w}
             /\ pc'[w] \in {"wap_lock", "wf_lock"}
             /\ \A x \in cv_ \ {w} : pc'[x] = pc[x]

\* The threads other than p that called wait_and_pop or wait_for.
Consumers(p) ==
  {c \in Threads \ {p} :
     \/ pc[c] \in {"wap_wait", "wf_wait"}
     \/ pc[c] = "idle" /\ ret[c][1] \in {"wait_and_pop", "wait_for"}}

\* Thread p made the only push, on a queue that is still open, every other
\* thread that made a call is a consumer whose wait did not time out, and
\* every thread is at rest: returned, or blocked on the condition variable.
OnePush(p) ==
  /\ ret[p] = <<"push", "ok", "">>
  /\ pc[p] = "idle"
  /\ ~shutdown_
  /\ Len(accepted) = 1
  /\ Consumers(p) # {}
  /\ \A c \in Threads \ {p} :
       \/ c \in Consumers(p) /\ ret[c][3] # "timeout"
       \/ pc[c] = "idle" /\ ret[c] = NoRet

\* C9: the notify of an accepted push unblocks exactly one blocked consumer;
\* with k >= 1 consumers in wait_and_pop/wait_for and one accepted push on
\* an open queue, once every thread is at rest exactly one consumer has
\* received the item and the other k-1 are still blocked on the condition
\* variable.
C9_PushWakesOne ==
  /\ [](\A p \in Threads :
          OnePush(p) =>
            /\ queue_ = <<>>
            /\ Cardinality({c \in Consumers(p) : ret[c][2] = "item"}) = 1
            /\ \A c \in Consumers(p) : ret[c][2] # "item" => c \in cv_)
  /\ [][\A t \in Threads : NotifyStep(t)]_vars

\* Two consumers called a blocking pop, one push was accepted: one consumer
\* holds the item and the other is blocked.
C9_Witness ==
  \E p \in Threads :
    /\ OnePush(p)
    /\ Cardinality(Consumers(p)) = 2
    /\ Cardinality(cv_) = 1

\* The positions of a thread inside wait_for.
WaitForPcs == {"wf_lock", "wf_cs", "wf_wait", "wf_tlock", "wf_tcs"}

\* wait_for by thread t, after its timeout elapsed on a queue that is open
\* and empty, returns empty and changes nothing.
TimeoutStep(t) ==
  (Leaves(t, "wf_tcs") /\ ~shutdown_ /\ queue_ = <<>>) =>
    /\ pc'[t] = "idle"
    /\ ret'[t] = <<"wait_for", "empty", "timeout">>
    /\ UNCHANGED <<queue_, shutdown_, accepted, removed>>

\* No step of wait_for by thread t on an empty queue changes the queue.
WaitForKeepsEmpty(t) ==
  (pc[t] \in WaitForPcs /\ pc'[t] # pc[t] /\ queue_ = <<>>) =>
    UNCHANGED <<queue_, shutdown_, accepted, removed>>

\* C10: a wait_for whose timeout elapses on an open queue that is empty
\* returns the empty result, never an error, and leaves the items and the
\* closed flag unchanged; wait_for has no other outcome than an item or
\* empty.
C10_TimeoutIsEmpty ==
  /\ [](\A t \in Threads :
          ret[t][1] = "wait_for" => ret[t][2] \in {"item", "empty"})
  /\ [][\A t \in Threads : TimeoutStep(t) /\ WaitForKeepsEmpty(t)]_vars

\* A wait_for timed out on an open queue into which nothing was ever pushed.
C10_Witness ==
  /\ ~shutdown_
  /\ accepted = <<>>
  /\ \E t \in Threads : ret[t] = <<"wait_for", "empty", "timeout">>

\* What wait_for by thread t must do each time it evaluates its predicate
\* under the lock: on entry and after a wake-up (wf_cs), at the timeout
\* (wf_tcs).
WaitForStep(t) ==
  (pc[t] \in {"wf_cs", "wf_tcs"} /\ pc'[t] # pc[t]) =>
    IF queue_ # <<>>
      THEN /\ pc'[t] = "idle"
           /\ ret'[t] = <<"wait_for", "item", "">>
           /\ queue_' = Tail(queue_)
           /\ removed' = HeadRemoved
      ELSE /\ queue_' = queue_
           /\ removed' = removed
           /\ pc'[t] = "idle" => ret'[t][1] = "wait_for" /\ ret'[t][2] = "empty"

\* C11: whenever the queue holds an item when wait_for evaluates its
\* predicate (on entry, after a wake-up or at the timeout) it removes and
\* returns the head; it returns empty only from an evaluation that found the
\* queue empty.
C11_WaitForTakesItem ==
  [][\A t \in Threads : WaitForStep(t)]_vars

\* One wait_for has returned an item, and the timeout of another has elapsed
\* while an item is queued: it holds the lock and is about to evaluate the
\* predicate.
C11_Witness ==
  /\ queue_ # <<>>
  /\ \E t, u \in Threads :
       ret[t] = <<"wait_for", "item", "">> /\ pc[u] = "wf_tcs"

\* The number of accepted pushes minus the number of pops that returned an
\* item.
Balance == Len(accepted) - Len(removed)

\* size() by thread t returns the balance and changes nothing.
SizeStep(t) ==
  Leaves(t, "size_cs") =>
    /\ ret'[t] = <<"size", ToString(Balance), "">>
    /\ UNCHANGED <<queue_, shutdown_, accepted, removed>>

\* empty() by thread t returns true exactly when the balance is 0.
EmptyStep(t) ==
  Leaves(t, "empty_cs") =>
    /\ ret'[t] = <<"empty", IF Balance = 0 THEN "true" ELSE "false", "">>
    /\ UNCHANGED <<queue_, shutdown_, accepted, removed>>

\* C12: in every reachable state the number of queued items, which is what
\* size() returns, is the number of accepted pushes minus the number of
\* pops that returned an item, and is not negative; empty() returns true
\* exactly when that number is 0.
C12_SizeConsistent ==
  /\ [](Size(queue_) = Balance /\ Size(queue_) >= 0)
  /\ [](\A t \in Threads :
          /\ ret[t][1] = "size" => ret[t][2] \in {ToString(n) : n \in 0..Len(accepted)}
          /\ ret[t][1] = "empty" => ret[t][2] \in {"true", "false"})
  /\ [][\A t \in Threads : SizeStep(t) /\ EmptyStep(t)]_vars

\* After two accepted pushes and one pop, size() has returned 1 and empty()
\* has returned false, as in the test "empty and size".
C12_Witness ==
  /\ Len(accepted) = 2
  /\ Len(removed) = 1
  /\ \E t, u \in Threads :
       ret[t] = <<"size", "1", "">> /\ ret[u] = <<"empty", "false", "">>

\* The positions of a thread inside push / emplace.
PushPcs == {"push_lock", "push_cs", "push_notify"}

\* The consumers blocked on the condition variable.
Parked == {c \in Threads : pc[c] \in {"wap_wait", "wf_wait"}}

\* C13: a push waits for nothing but the mutex: a thread inside push is
\* never blocked on the condition variable, with the mutex it can always run
\* its critical section and then its notify, and under fair scheduling every
\* push that was called returns, with success or with the closed error,
\* whatever the other threads do.
C13_PushNeverBlocks ==
  /\ [](\A t \in Threads :
          /\ pc[t] \in PushPcs => t \notin cv_
          /\ pc[t] = "push_lock" /\ mutex_ = NoThread => ENABLED PushLock(t)
          /\ pc[t] = "push_cs" => ENABLED PushBody(t)
          /\ pc[t] = "push_notify" => ENABLED PushNotify(t))
  /\ \A t \in Threads :
       (pc[t] = "push_lock")
         ~> (pc[t] = "idle" /\ ret[t][1] = "push"
               /\ ret[t][2] \in {"ok", "closed_error"})

\* A producer has called push while the two other threads are consumers
\* parked on the condition variable of the open, empty queue.
C13_Witness ==
  /\ ~shutdown_
  /\ Cardinality(Parked) = 2
  /\ \E t \in Threads : pc[t] = "push_lock"

\* wait_all returns to thread t with this step.
WaitAllReturns(t) == ppc[t] = "wa_wait" /\ ppc'[t] = "client"

\* C14: when wait_all() returns, every task whose submit() had returned
\* before the wait_all() call began has finished executing: its future is
\* ready.  This is for a pool of any number of workers.
C14_WaitAllCompletes ==
  [][\A t \in Threads :
       WaitAllReturns(t) => \A k \in earlier[t] : tasks[k].state = "ready"]_vars

\* With two workers, every barrier of a wait_all is ready while a task
\* submitted before it is still being run by the other worker.
C14_Witness ==
  \E t \in Threads :
    /\ ppc[t] = "wa_wait"
    /\ Len(barriers[t]) = 2
    /\ \A i \in 1..Len(barriers[t]) : tasks[barriers[t][i]].state = "ready"
    /\ \E k \in earlier[t], w \in workers_ :
         tasks[k].state = "pending" /\ task[w] = k

\* The tasks whose push was accepted by task_queue_.
AcceptedTasks == {accepted[i] : i \in 1..Len(accepted)}

\* C15: once the first call of the pool's shutdown() has returned, the task
\* queue is closed and empty, every accepted task has been executed, and
\* every worker has exited; a worker that has exited found the queue closed
\* and empty.
C15_GracefulShutdown ==
  /\ \A t \in Threads : pret[t] = <<"shutdown", "joined">> => ShutdownReturned
  /\ ShutdownReturned =>
       /\ shutdown_
       /\ queue_ = <<>>
       /\ \A k \in AcceptedTasks : tasks[k].state = "ready" /\ tasks[k].runs = 1
       /\ \A w \in workers_ : ppc[w] = "exited"
  /\ \A w \in workers_ : ppc[w] = "exited" => shutdown_ /\ queue_ = <<>>

\* shutdown() has returned to its first caller on a pool of two workers,
\* two tasks were accepted, and one of them left the queue after the queue
\* was closed.
C15_Witness ==
  /\ Cardinality(workers_) = 2
  /\ Len(accepted) >= 2
  /\ \E i \in 1..Len(removed) : removed[i].closed
  /\ \E t \in Threads : pret[t] = <<"shutdown", "joined">>

\* The tasks made by a submit() that was called after shutdown() returned.
LateTasks == {k \in 1..Len(tasks) : tasks[k].stopped}

\* C16: a submit() called after the pool's shutdown() has returned fails
\* with the closed error in the call itself, enqueues nothing, and its task
\* body is never executed.
C16_SubmitAfterShutdown ==
  \A k \in LateTasks :
    /\ k \notin AcceptedTasks
    /\ \A i \in 1..Len(queue_) : queue_[i] # k
    /\ tasks[k].runs = 0
    /\ tasks[k].state = "pending"
    /\ \A t \in Threads :
         (task[t] = k /\ pc[t] = "idle") =>
           /\ ppc[t] \in {"submit", "wa_push"}
           /\ ret[t] = <<"push", "closed_error", "">>

\* After shutdown() returned, with an accepted task executed before it, a
\* submit() has been called and has returned the closed error.
C16_Witness ==
  /\ ShutdownReturned
  /\ \E k \in AcceptedTasks : tasks[k].state = "ready"
  /\ \E k \in LateTasks : tasks[k].kind = "job" /\ \A t \in Threads : task[t] # k
  /\ \E t \in Threads : pret[t] = <<"submit", "closed_error">>

\* The tasks made by a submit() that was called while the pool's shutdown
\* flag was set, that is while is_shutdown() returned true.
FlaggedTasks == {k \in 1..Len(tasks) : tasks[k].flag}

\* C17: a submit() called in a state in which the pool's shutdown flag is
\* true fails with the closed error and enqueues nothing, also when it races
\* with a shutdown() still in progress on another thread.
C17_SubmitFailsWhenFlagged ==
  \A k \in FlaggedTasks :
    /\ k \notin AcceptedTasks
    /\ \A t \in Threads :
         (task[t] = k /\ pc[t] = "idle" /\ t \in Clients) =>
           ret[t] = <<"push", "closed_error", "">>

\* A submit() called while a shutdown() on another thread had set the flag
\* and had not yet closed the task queue has returned a future, and its
\* task has been executed.
C17_Witness ==
  /\ \E k \in FlaggedTasks :
       k \in AcceptedTasks /\ tasks[k].kind = "job" /\ tasks[k].state = "ready"
  /\ \E t \in Threads : pret[t] = <<"submit", "future">>

\* The future of every task accepted so far is ready.
AllReady == \A k \in AcceptedTasks : tasks[k].state = "ready"

\* C18: under fair scheduling, with task bodies that terminate, the future
\* of every accepted task eventually becomes ready, also when shutdown()
\* (or the destructor, which calls it) runs while the task is queued: at
\* any time there is a later time at which every task accepted so far,
\* which includes every task accepted by then, has a ready future.
C18_FutureResolves == []<>AllReady

\* shutdown() has closed the task queue while an accepted task is still
\* queued, its future pending.
C18_Witness ==
  /\ shutdown_
  /\ \E t \in Threads : ppc[t] = "sd_join"
  /\ \E i \in 1..Len(queue_) :
       tasks[queue_[i]].kind = "job" /\ tasks[queue_[i]].state = "pending"

\* C19: the body of every task is executed at most once and by at most one
\* worker: no task has run twice, no task has left the queue twice, no two
\* workers hold the same dequeued task, and a task a worker holds is no
\* longer queued.
C19_AtMostOnce ==
  /\ \A k \in 1..Len(tasks) : tasks[k].runs <= 1
  /\ \A i, j \in 1..Len(removed) : i # j => removed[i].item # removed[j].item
  /\ \A w, x \in workers_ : (w # x /\ task[w] # NoTask) => task[w] # task[x]
  /\ \A w \in workers_, i \in 1..Len(queue_) : task[w] # queue_[i]

\* Two workers each hold a task they have dequeued and a third task is
\* queued.
C19_Witness ==
  /\ Cardinality(workers_) = 2
  /\ \A w \in workers_ : task[w] # NoTask /\ ret[w] = <<"wait_and_pop", "item", "">>
  /\ queue_ # <<>>

\* C20: the future of an accepted job whose callable returned is ready with
\* exactly the value of the callable on its bound arguments, their sum: 42
\* for 21 and 21; a future that is not ready holds no value, and a job has
\* run exactly when its future is ready.
C20_SubmitResult ==
  \A k \in 1..Len(tasks) :
    tasks[k].kind = "job" =>
      /\ tasks[k].state = "ready" =>
            /\ k \in AcceptedTasks
            /\ tasks[k].runs = 1
            /\ tasks[k].result = <<tasks[k].args[1] + tasks[k].args[2]>>
            /\ tasks[k].args = <<21, 21>> => tasks[k].result = <<42>>
      /\ tasks[k].state = "pending" => tasks[k].result = <<>> /\ tasks[k].runs = 0

\* Two clients submitted jobs with different arguments and both futures are
\* ready, one with 42 and one with 3.
C20_Witness ==
  \E k, l \in 1..Len(tasks) :
    /\ tasks[k].state = "ready" /\ tasks[k].result = <<42>>
    /\ tasks[l].state = "ready" /\ tasks[l].result = <<3>>

\* The tasks whose callable has thrown.
Failed == {k \in 1..Len(tasks) : tasks[k].error}

\* C21: the error a callable raises is the outcome of the future of its own
\* task and of no other: a ready future holds an error exactly when its
\* task's callable throws and was run, and a job's ready future holds the job's own
\* value whatever other tasks have failed.  A failure closes nothing and
\* stops no worker: the queue is closed, a push refused and a worker gone
\* only after the pool's shutdown() was called, so tasks submitted after a
\* failure are accepted and run as before.
C21_FailurePropagation ==
  /\ \A k \in 1..Len(tasks) :
       /\ tasks[k].error => tasks[k].kind = "throws" /\ tasks[k].state = "ready"
       /\ (tasks[k].runs > 0 /\ tasks[k].kind = "throws") =>
            tasks[k].error /\ tasks[k].result = <<>>
       /\ (tasks[k].state = "ready" /\ tasks[k].kind = "job") =>
            tasks[k].result = <<tasks[k].args[1] + tasks[k].args[2]>>
       /\ tasks[k].state = "pending" => tasks[k].result = <<>>
  /\ shutdown_ => pool_shutdown_
  /\ \A t \in Threads : ret[t] = <<"push", "closed_error", "">> => pool_shutdown_
  /\ \A w \in workers_ : ppc[w] = "exited" => pool_shutdown_

\* On a pool of one worker that is not shut down, a task has failed and a
\* job dequeued after it has been run, its future ready with its value.
C21_Witness ==
  /\ ~pool_shutdown_
  /\ Cardinality(workers_) = 1
  /\ \E i, j \in 1..Len(removed) :
       /\ i < j
       /\ removed[i].item \in Failed
       /\ removed[i].item < removed[j].item
       /\ tasks[removed[j].item].kind = "job"
       /\ tasks[removed[j].item].state = "ready"
       /\ tasks[removed[j].item].result # <<>>

\* The workers that have not left worker_loop.
Alive == {w \in workers_ : ppc[w] = "worker"}

\* C22: a worker that has left its loop had wait_and_pop report the queue
\* closed and empty, and the queue is then closed and empty; while the queue
\* is not closed every worker is alive, whatever tasks have failed.
C22_WorkerNeverDiesEarly ==
  /\ \A w \in workers_ :
       ppc[w] = "exited" =>
         /\ ret[w] = <<"wait_and_pop", "empty", "">>
         /\ shutdown_
         /\ queue_ = <<>>
  /\ ~shutdown_ => Alive = workers_

\* Two workers, the queue open, a task has failed and another task is
\* being run: both workers are alive.
C22_Witness ==
  /\ ~shutdown_
  /\ Cardinality(workers_) = 2
  /\ Failed # {}
  /\ Alive = workers_
  /\ \E w \in workers_ : task[w] # NoTask /\ ret[w] = <<"wait_and_pop", "item", "">>

\* The outcome held by the shared state of task k.
Outcome(k) == <<tasks[k].state, tasks[k].result, tasks[k].error>>

\* One step seen from the shared state of task k: a ready state is left as
\* it is, and a pending one becomes ready only by the one run of the task.
OneShotStep(k) ==
  /\ tasks[k].state = "ready" =>
       /\ tasks'[k].state = "ready"
       /\ tasks'[k].result = tasks[k].result
       /\ tasks'[k].error = tasks[k].error
  /\ (tasks[k].state = "pending" /\ tasks'[k].state = "ready") =>
       tasks[k].runs = 0 /\ tasks'[k].runs = 1
  /\ tasks'[k].runs # tasks[k].runs =>
       tasks[k].state = "pending" /\ tasks'[k].state = "ready"

\* C23: the shared state of a task is pending or ready, ready with a value
\* or with an error and never both; it is ready exactly when the task has
\* been run, which happens at most once; and no step changes a ready state
\* or takes it back to pending.
C23_OneShot ==
  /\ [](\A k \in 1..Len(tasks) :
          /\ tasks[k].state \in {"pending", "ready"}
          /\ tasks[k].runs \in {0, 1}
          /\ tasks[k].state = "ready" <=> tasks[k].runs = 1
          /\ ~(tasks[k].error /\ tasks[k].result # <<>>)
          /\ tasks[k].state = "pending" => Outcome(k) = <<"pending", <<>>, FALSE>>)
  /\ [][\A k \in 1..Len(tasks) : OneShotStep(k)]_vars

\* One task is ready with an error, one with a value, and a third was
\* submitted after both.
C23_Witness ==
  \E i, j, k \in 1..Len(tasks) :
    /\ Outcome(i) = <<"ready", <<>>, TRUE>>
    /\ Outcome(j) = <<"ready", <<3>>, FALSE>>
    /\ i < k /\ j < k

\* The unsigned int after u, for u below the largest.
Succ(u) == IF u[2] < Half - 1 THEN <<u[1], u[2] + 1>> ELSE <<u[1] + 1, 0>>

\* The constructor has settled the number of workers it starts.
CountSettled == ctor.at \in {"reserve", "done"}

\* C24: once the constructor has settled its count, a call with 0 on a
\* machine whose hardware query returns h has the count max(h - 1, 1),
\* that is 1 when h is 0 or 1 and the number before h otherwise; a call
\* with n # 0 has the count n.
C24_DefaultWorkerCount ==
  CountSettled =>
    IF ctor.arg = UInt(0)
      THEN IF ctor.hardware \in {UInt(0), UInt(1)}
             THEN ctor.num_threads = UInt(1)
             ELSE Succ(ctor.num_threads) = ctor.hardware
      ELSE ctor.num_threads = ctor.arg

\* thread_pool(0) where the hardware query returns 1 has settled on 1 worker
\* and started it.
C24_Witness ==
  /\ ctor.at = "done"
  /\ ctor.arg = UInt(0)
  /\ ctor.hardware = UInt(1)
  /\ Cardinality(workers_) = 1

\* Thread t returns from a call of the pool's shutdown() in this step.
ShutdownReturns(t) == pret'[t] # pret[t] /\ pret'[t][1] = "shutdown"

\* C25: once the first call of the pool's shutdown() has returned, the flag
\* is set, the queue is closed and empty and every worker has exited; from
\* then on no thread is ever inside shutdown() again (no call blocks, no
\* worker is joined again), and a call of shutdown() returns in the step
\* that makes it, as a call that found the flag set, and changes nothing.
C25_ShutdownIdempotent ==
  /\ [](ShutdownReturned =>
          /\ pool_shutdown_ /\ shutdown_ /\ queue_ = <<>>
          /\ \A w \in workers_ : ppc[w] = "exited")
  /\ [][ShutdownReturned =>
          /\ ShutdownReturned'
          /\ \A t \in Threads :
               /\ pc'[t] # "sd_lock"
               /\ ShutdownReturns(t) =>
                    /\ AtRest(t)
                    /\ pret'[t] = <<"shutdown", "already">>
                    /\ UNCHANGED <<queue_, shutdown_, mutex_, cv_, pc, ret,
                                   accepted, removed, ctor, others, workers_,
                                   pool_shutdown_, ppc, task, tasks, barriers,
                                   earlier>>]_vars

\* The only client of a pool of two workers has called shutdown() a second
\* time: its first call had returned, the second found the flag set.
C25_Witness ==
  /\ Cardinality(workers_) = 2
  /\ ShutdownReturned
  /\ \E t \in Clients : pret[t] = <<"shutdown", "already">>

\* Worker w is running the body of a task: wait_and_pop has handed it the
\* task and task() has not returned.
Executing(w) ==
  /\ w \in workers_
  /\ ppc[w] = "worker"
  /\ pc[w] = "idle"
  /\ ret[w] = <<"wait_and_pop", "item", "">>

\* The positions at which a thread is under the lock of a queue function.
CriticalSections ==
  {"push_cs", "try_cs", "wap_cs", "wf_cs", "sd_cs", "size_cs", "empty_cs", "is_cs"}

\* C26: a worker that is running a task body does not hold the queue
\* mutex; whoever holds it is inside the critical section of a queue
\* function, none of which runs a task, so that the mutex is free or about
\* to be freed for submit, try_pop and the other workers while a task runs.
C26_MutexNotHeldAcrossTask ==
  /\ \A w \in workers_ : Executing(w) => mutex_ # w
  /\ mutex_ # NoThread => pc[mutex_] \in CriticalSections

\* While one worker runs a task, a client inside submit holds the mutex in
\* push and the other worker is inside wait_and_pop.
C26_Witness ==
  \E w, x \in workers_, t \in Clients :
    /\ Executing(w)
    /\ mutex_ = t /\ pc[t] = "push_cs" /\ ppc[t] = "submit"
    /\ x # w /\ pc[x] \in {"wap_lock", "wap_wait"}

\* The state of the pool: Running until shutdown() sets the flag, Draining
\* while a worker is still in its loop, Stopped when all have exited.
PoolState ==
  IF ~pool_shutdown_ THEN "Running"
  ELSE IF \A w \in workers_ : ppc[w] = "exited" THEN "Stopped"
  ELSE "Draining"

\* C27: the flag of the pool, once set, stays set; the queue is closed only
\* when the flag of the pool is set; a step leaves the state of the pool as
\* it is or takes it from Running to Draining or from Draining to Stopped;
\* and in state Stopped no step runs a task.
C27_OneWay ==
  /\ [](shutdown_ => pool_shutdown_)
  /\ [][/\ pool_shutdown_ => pool_shutdown_'
        /\ \/ PoolState' = PoolState
           \/ PoolState = "Running" /\ PoolState' = "Draining"
           \/ PoolState = "Draining" /\ PoolState' = "Stopped"
        /\ PoolState = "Stopped" =>
             \A k \in 1..Len(tasks) : tasks'[k] = tasks[k]]_vars

\* The pool is Stopped; a task was run before, and a task submitted since
\* the pool stopped has not been run.
C27_Witness ==
  /\ PoolState = "Stopped"
  /\ \E j, k \in 1..Len(tasks) :
       /\ tasks[j].runs = 1
       /\ tasks[k].stopped /\ tasks[k].runs = 0
       /\ \A t \in Threads : task[t] # k

\* C28: in every state of a constructed pool, whatever calls of submit,
\* wait_all and shutdown were made and also after the workers were joined,
\* thread_count() is the number of workers the constructor started.
C28_ThreadCountFixed ==
  /\ ctor.at = "done"
  /\ UInt(thread_count) = ctor.num_threads

\* A pool of two workers after submit and wait_all have returned and
\* shutdown() has joined the workers.
C28_Witness ==
  /\ thread_count = 2
  /\ PoolState = "Stopped"
  /\ \E t \in Clients : pret[t] = <<"shutdown", "joined">>
  /\ \E k \in 1..Len(tasks) : tasks[k].kind = "barrier" /\ tasks[k].runs = 1
  /\ \E k \in 1..Len(tasks) : tasks[k].kind = "job" /\ tasks[k].runs = 1

\* The threads about to notify after a push, and the consumers on their way
\* to evaluate the predicate of wait_and_pop under the lock.
Notifiers == {t \in Threads : pc[t] = "push_notify"}
Arriving == {t \in Threads : pc[t] \in {"wap_lock", "wap_cs"}}

\* Consumer t is blocked on the condition variable although the predicate
\* of its wait holds.
Missed(t) == pc[t] = "wap_wait" /\ t \in cv_ /\ (queue_ # <<>> \/ shutdown_)

\* C29: whenever a consumer is blocked on the condition variable of a
\* queue that is closed, the notify_all of shutdown() is still to come;
\* whenever one is blocked on an open queue, each queued item has a push
\* that is still to notify or a consumer on its way to take it.  Under fair
\* scheduling a blocked consumer whose predicate holds returns from
\* wait_and_pop, unless the queue is open and another consumer takes the
\* items first.
C29_NoLostWakeup ==
  /\ [](cv_ # {} =>
          IF shutdown_
            THEN \E t \in Threads : pc[t] = "sd_notify"
            ELSE Len(queue_) <= Cardinality(Notifiers) + Cardinality(Arriving))
  /\ \A t \in Threads :
       Missed(t) ~>
         \/ pc[t] = "idle" /\ ret[t][1] = "wait_and_pop"
         \/ ~shutdown_ /\ queue_ = <<>>

\* Two consumers are blocked in wait_and_pop, an item is queued and its
\* push has left the critical section and has not notified yet.
C29_Witness ==
  /\ Cardinality({t \in Threads : Missed(t)}) = 2
  /\ Len(queue_) = 1
  /\ Cardinality(Notifiers) = 1

\* C30: in the state in which a call of the pool's shutdown() returns, be it
\* the first call or one made while another thread is inside shutdown(),
\* every worker has exited and every accepted task has been executed.
C30_ConcurrentShutdown ==
  [][\A t \in Threads :
       ShutdownReturns(t) =>
         /\ \A w \in workers_ : ppc'[w] = "exited"
         /\ \A i \in 1..Len(accepted') : tasks'[accepted'[i]].state = "ready"]_vars

\* A call of shutdown() has returned because it found the flag set, while
\* the first caller is still inside shutdown(), a worker is running a task
\* and an accepted task is still queued.
C30_Witness ==
  /\ \E t \in Clients : pret[t] = <<"shutdown", "already">>
  /\ \E t \in Clients : ppc[t] = "sd_join"
  /\ \E w \in workers_ : Executing(w)
  /\ queue_ # <<>>

\* The tasks in the queue, and those a worker has dequeued.
QueuedTasks == {queue_[i] : i \in 1..Len(queue_)}
DequeuedTasks == {removed[i].item : i \in 1..Len(removed)}

\* C31: when wait_all() returns, every task whose submit() had returned
\* before the wait_all() call began has been dequeued: it is not in the
\* queue any more, and it is held by the worker that runs it or has run.
C31_WaitAllOrdering ==
  [][\A t \in Threads :
       WaitAllReturns(t) =>
         \A k \in earlier[t] :
           /\ k \notin QueuedTasks
           /\ k \in DequeuedTasks
           /\ tasks[k].state = "ready" \/ \E w \in workers_ : task[w] = k]_vars

\* A wait_all on a pool of one worker is about to return, after two jobs
\* whose submit had returned before it was called: both were dequeued
\* before its barrier.
C31_Witness ==
  \E t \in Threads :
    /\ ppc[t] = "wa_wait"
    /\ Len(barriers[t]) = 1
    /\ tasks[barriers[t][1]].state = "ready"
    /\ Cardinality(earlier[t]) = 2
    /\ earlier[t] \subseteq DequeuedTasks

\* Thread t is inside wait_all.
InsideWaitAll(t) == ppc[t] \in {"wa_push", "wa_wait"}

\* C32: under fair scheduling every call of wait_all() on a running pool
\* returns, be the caller a client thread or a worker running a task body
\* that calls it, for a pool of one worker and of two.
C32_WaitAllTerminates ==
  \A t \in Threads : InsideWaitAll(t) ~> ~InsideWaitAll(t)

\* The one worker of a pool is inside wait_all, called by the body of the
\* task it runs, waiting for its barrier, which is queued.
C32_Witness ==
  /\ Cardinality(workers_) = 1
  /\ \E w \in workers_ :
       /\ ppc[w] = "wa_wait"
       /\ Len(barriers[w]) = 1
       /\ barriers[w][1] \in QueuedTasks

\* Thread t is inside a wait_all() that it called after the pool's
\* shutdown() had returned, at the submit of its first barrier.
LateWaitAll(t) ==
  /\ ppc[t] = "wa_push"
  /\ barriers[t] = <<>>
  /\ tasks[task[t]].stopped

\* C33: a wait_all() called after the pool's shutdown() has returned waits
\* for nothing but the mutex of the queue: its first barrier is refused by
\* push and enters neither the queue nor the accepted tasks, and the call
\* then returns with the closed error of that push, having made no second
\* barrier.
C33_WaitAllAfterShutdown ==
  /\ [](\A t \in Threads :
          LateWaitAll(t) =>
            /\ t \notin cv_
            /\ \/ pc[t] \in {"push_lock", "push_cs"}
               \/ pc[t] = "idle" /\ ret[t] = <<"push", "closed_error", "">>
            /\ task[t] \notin QueuedTasks \cup AcceptedTasks
            /\ queue_ = <<>>
            /\ pc[t] = "push_lock" /\ mutex_ = NoThread => ENABLED PushLock(t)
            /\ pc[t] = "push_cs" => ENABLED PushBody(t)
            /\ pc[t] = "idle" => ENABLED WaitAllPushed(t))
  /\ [][\A t \in Threads :
          (LateWaitAll(t) /\ (ppc'[t] # ppc[t] \/ task'[t] # task[t])) =>
            /\ ppc'[t] = "client"
            /\ pret'[t] = <<"wait_all", "closed_error">>
            /\ UNCHANGED <<queue_, accepted, tasks>>]_vars

\* A client of a pool of two workers whose shutdown() has returned has
\* called wait_all(), and the push of its first barrier was refused.
C33_Witness ==
  /\ Cardinality(workers_) = 2
  /\ \E t \in Threads :
       LateWaitAll(t) /\ pc[t] = "idle" /\ ret[t] = <<"push", "closed_error", "">>

\* The count of the latch the callers use.
Count == count_["init_latch"]

\* The larger of two numbers.
Max(a, b) == IF a >= b THEN a ELSE b

\* Thread t returns in this step from the function whose critical section
\* is cs.
LatchReturns(t, cs) == lpc[t].at = cs /\ lpc'[t].at = "idle"

\* C34: the count is never negative and no step increases it; the step in
\* which count_down() returns takes a count of 0 to 0 and any other count
\* down by one, the step in which count_down(n) returns takes the count c
\* to max(c - n, 0), and no other step changes the count; wait() returns
\* only with the count 0; is_done() returns true exactly with the count 0,
\* with which get_count() returns 0.
C34_LatchCounter ==
  /\ [](Count >= 0)
  /\ [][/\ Count' <= Count
        /\ \A t \in Callers :
             /\ LatchReturns(t, "cd_cs") =>
                  Count' = (IF Count = 0 THEN 0 ELSE Count - 1)
             /\ LatchReturns(t, "cdn_cs") => Count' = Max(Count - lpc[t].n, 0)
             /\ LatchReturns(t, "wait_cs") => Count = 0 /\ Count' = 0
             /\ LatchReturns(t, "id_cs") =>
                  /\ Count' = Count
                  /\ lret'[t] = <<"is_done", "true">> <=> Count = 0
                  /\ lret'[t] = <<"is_done", "false">> <=> Count # 0
             /\ LatchReturns(t, "gc_cs") =>
                  /\ Count' = Count
                  /\ lret'[t] = <<"get_count", ToString(Count)>>
        /\ Count' # Count =>
             \E t \in Callers : LatchReturns(t, "cd_cs") \/ LatchReturns(t, "cdn_cs")]_vars

\* On a latch counted down to 0, wait() and is_done() have returned and a
\* thread is inside count_down().
C34_Witness ==
  /\ Count = 0
  /\ \E t, u, v \in Callers :
       /\ lret[t] = <<"wait", "returned">>
       /\ lret[u] = <<"is_done", "true">>
       /\ lpc[v].at = "cd_cs"

\* Thread t is inside wait() on the latch the callers use.
InWait(t) == lpc[t].at \in {"wait_lock", "wait_cs", "wait_parked"}

\* C35: while the count is 0 no thread is blocked on the condition
\* variable, whichever of count_down() and count_down(n) took the count to
\* 0, so that a wait() called then does not block; and under fair
\* scheduling every thread that is inside wait() with the count 0, blocked
\* before or calling later, returns from it.
C35_LatchRelease ==
  /\ [](Count = 0 =>
          /\ latch_cv_["init_latch"] = {}
          /\ \A t \in Callers : lpc[t].at # "wait_parked")
  /\ \A t \in Callers :
       (InWait(t) /\ Count = 0)
         ~> (lpc[t].at = "idle" /\ lret[t] = <<"wait", "returned">>)

\* Two threads were blocked in wait() when a count_down(n) took the count
\* to 0 and notified them: they are about to take the mutex again.
C35_Witness ==
  /\ Count = 0
  /\ \E t, u, v \in Callers :
       /\ t # u
       /\ lpc[t].at = "wait_lock" /\ lpc[u].at = "wait_lock"
       /\ lret[v] = <<"count_down_n", "">>
       /\ lpc[v].at = "idle"

\* C36: in the flow of the latch test with NUM_WORKERS workers, the test
\* thread's wait on the init latch eventually returns, it releases the
\* start latch, and the flow ends with every worker ended and joined.
C36_TestTerminates ==
  (test.num = NUM_WORKERS /\ test.at = "loop" /\ test.i = 0)
    ~> (/\ test.at = "done"
        /\ test.joined = 1..NUM_WORKERS
        /\ \A w \in 1..NUM_WORKERS : wk[w] = "finished")

\* The test thread is blocked in init_latch.wait() with the only worker
\* started blocked in start_latch.wait(), and the count of the init latch
\* still above 0.
C36_Witness ==
  /\ test.num = NUM_WORKERS
  /\ test.at = "waiting"
  /\ lpc[MainThread].at = "wait_parked"
  /\ count_["init_latch"] = NUM_WORKERS - 1
  /\ wk[1] = "waiting"
  /\ lpc[1].at = "wait_parked"
  /\ \A w \in 2..NUM_WORKERS : wk[w] = "unborn"

\* Philosopher id owns fork f; two philosophers are neighbours when they
\* share a fork; the eating step is the one between the test of running_
\* after the inner loop and the first unlock.
Holds(id, f) == id \in forks_[f]
Neighbours(p, q) == p # q /\ (Right(p) = Left(q) \/ Right(q) = Left(p))
Eating(id) == phil[id] = "eat"

\* C38: a philosopher is in its eating step only while it holds both its
\* left and its right fork, each fork is held by at most one philosopher at
\* a time, and two neighbouring philosophers never eat at the same time.
C38_Exclusion ==
  /\ \A id \in philosophers_ :
       Eating(id) => Holds(id, Left(id)) /\ Holds(id, Right(id))
  /\ \A f \in Ids : Cardinality(forks_[f]) <= 1
  /\ \A p, q \in philosophers_ :
       Neighbours(p, q) => ~(Eating(p) /\ Eating(q))

\* Two philosophers that are not neighbours eat while the neighbours of
\* both try to take a fork they hold.
C38_Witness ==
  /\ n_ = 4
  /\ Eating(0) /\ Eating(2)
  /\ phil[1] = "try_first" /\ Holds(0, First(1))
  /\ phil[3] = "try_first" /\ Holds(0, First(3))

\* stop() has returned: running_ is false and no thread is left.
Stopped == table.at = "idle" /\ ~running_ /\ philosophers_ = {}

\* C39: whenever a philosopher thread has left its outer loop it holds no
\* fork, and after stop() has returned every fork is unlocked.
C39_NoForkAtExit ==
  /\ \A id \in philosophers_ :
       phil[id] = "exit" => \A f \in Ids : ~Holds(id, f)
  /\ Stopped => \A f \in Ids : forks_[f] = {}

\* stop() has returned and a fork is still locked, by a thread that has
\* ended.
C39_Witness ==
  /\ Stopped
  /\ \E f \in Ids : forks_[f] = {Gone}

\* A philosopher waits for a fork while it is inside try_lock_for, and the
\* fork it waits for is the one it tries to lock.
Waiting(id) == phil[id] \in {"try_first", "try_second"}
Wanted(id) == IF phil[id] = "try_first" THEN First(id) ELSE Second(id)

\* Every philosopher of a running table waits for a fork that has an owner.
AllBlocked ==
  /\ running_
  /\ philosophers_ = 0..(n_ - 1)
  /\ \A id \in philosophers_ : Waiting(id) /\ forks_[Wanted(id)] # {}

\* C37: for n >= 2 philosophers no state is reached in which every
\* philosopher is blocked waiting for a fork, and after stop() has set
\* running_ to false every philosopher thread ends, so that stop() (and
\* with it run_for()) returns.
C37_NoDeadlock ==
  /\ [](n_ >= 2 => ~AllBlocked)
  /\ (table.at = "stopping") ~> Stopped

\* Every philosopher of a table that was started again waits for a fork
\* whose owner ended during the run before: no fork will ever be free.
C37_Witness ==
  /\ running_
  /\ philosophers_ = 0..(n_ - 1)
  /\ \A id \in philosophers_ :
       phil[id] = "try_first" /\ forks_[First(id)] = {Gone}

====
